---- MODULE Spec2Model ----
(***************************************************************************)
(* The container/process lifecycle manager of the GCS core (gcsCore):      *)
(* the two caches and their mutexes, the request handlers, and the exit    *)
(* supervisors (goroutines) that ExecProcess and RunExternalProcess start. *)
(* Cache entries are heap objects: `entries` and `procs` are the heaps,    *)
(* and the caches, the waiters and the supervisors hold indices into them. *)
(***************************************************************************)
EXTENDS Integers, Sequences, FiniteSets, TLC

\* ------------------------------------------------------------------ bounds
\* Number of containerCacheEntry objects ever inserted into containerCache.
MaxEntries == 2
\* Number of processCacheEntry objects ever handed to a supervisor.
MaxProcs == 2
\* Number of requests the host issues.
MaxCalls == 4
\* Number of requests the host issues when it runs two containers side by side.
MaxCallsOnTwo == 5

\* Request threads (the transport's handler goroutines).
Threads == {1, 2}
\* Container ids the host uses.
Ids == {"c1", "c2"}
\* The id the host uses when it runs one container.
OneId == {"c1"}
\* Pids the runtime and the OS hand out.
Pids == {101, 102}
\* Exit codes an exit state can carry.
ExitCodes == {0}
Signals == {0, 15}

\* exitCode of a fresh entry (newContainerCacheEntry, newProcessCacheEntry).
InitialExitCode == -1
\* syscall.SIGKILL
SIGKILL == 9

\* ------------------------------------------------------------------ state
VARIABLES
    containerCache,       \* gcsCore.containerCache: id -> entry index, 0 = absent
    entries,              \* heap of containerCacheEntry objects
    processCache,         \* gcsCore.processCache: pid -> process entry index, 0 = absent
    procs,                \* heap of processCacheEntry objects
    containerCacheMutex,  \* holder: 0 free, t a request thread, -e supervisor of entry e
    processCacheMutex,    \* holder: 0 free, t a request thread
    thr,                  \* request threads: position, locals, last result
    sups,                 \* init supervisor goroutine of each container entry
    psups,                \* supervisor goroutine of each process entry
    panicked,             \* the process died of a nil dereference
    effects,              \* calls the last step made on the Runtime / OS collaborators
    ret,                  \* what the last step returned to a caller, if it returned
    waited,               \* history: the WaitContainer calls that returned an exit code
    lastAdd,              \* history: the disk that the last ModifySettings calls added, then removed
    returnedPids,         \* history: the pids ExecProcess and RunExternalProcess returned
    calls                 \* number of requests the host has issued

vars == <<containerCache, entries, processCache, procs, containerCacheMutex,
          processCacheMutex, thr, sups, psups, panicked, effects, ret, waited, lastAdd, returnedPids, calls>>

EmptyMap == [k \in {} |-> 0]

\* sync.WaitGroup.Done on a counter
Done(wg) == wg - 1

\* ------------------------------------------------------------------ entries
newContainerCacheEntry(id) ==
    [ID |-> id,
     MappedVirtualDisks |-> EmptyMap,
     MappedDirectories |-> EmptyMap,
     NetworkAdapters |-> <<>>,
     container |-> 0,
     hasRunInitProcess |-> FALSE,
     exitWg |-> 0,
     exitCode |-> InitialExitCode]

newProcessCacheEntry(containerID) ==
    [Tty |-> FALSE, ContainerID |-> containerID, exitWg |-> 0,
     exitCode |-> InitialExitCode]

getContainer(id) == containerCache[id]

\* The helpers return [err, entry]: the error (or "nil") and the entry after
\* the call.
AddNetworkAdapter(e, adapter) ==
    [e EXCEPT !.NetworkAdapters = Append(@, adapter)]

\* Variant: lines 259-265 without the presence test of lines 260-262.
AddMappedVirtualDiskOverwrites(e, disk) ==
    [err |-> "nil",
     entry |-> [e EXCEPT !.MappedVirtualDisks = (disk.Lun :> disk) @@ @]]

\* Lines 259-265.
AddMappedVirtualDisk(e, disk) ==
    IF disk.Lun \in DOMAIN e.MappedVirtualDisks
    THEN [err |-> "DuplicateLun", entry |-> e]
    ELSE [err |-> "nil",
          entry |-> [e EXCEPT !.MappedVirtualDisks = (disk.Lun :> disk) @@ @]]

\* Variant: lines 266-272 without the delete of line 271.
RemoveMappedVirtualDiskKeeps(e, disk) == e

\* Variant: lines 266-272 dropping every disk of the map.
RemoveMappedVirtualDiskClears(e, disk) ==
    [e EXCEPT !.MappedVirtualDisks = EmptyMap]

\* Lines 266-272.
RemoveMappedVirtualDisk(e, disk) ==
    IF disk.Lun \notin DOMAIN e.MappedVirtualDisks
    THEN e
    ELSE [e EXCEPT !.MappedVirtualDisks =
              [l \in (DOMAIN @) \ {disk.Lun} |-> @[l]]]

AddMappedDirectory(e, dir) ==
    IF dir.Port \in DOMAIN e.MappedDirectories
    THEN [err |-> "DuplicatePort", entry |-> e]
    ELSE [err |-> "nil",
          entry |-> [e EXCEPT !.MappedDirectories = (dir.Port :> dir) @@ @]]

RemoveMappedDirectory(e, dir) ==
    IF dir.Port \notin DOMAIN e.MappedDirectories
    THEN e
    ELSE [e EXCEPT !.MappedDirectories =
              [p \in (DOMAIN @) \ {dir.Port} |-> @[p]]]

\* ------------------------------------------------------------------ storage
\* ok says whether the OS mounts (resp. unmounts) succeeded. Each helper
\* returns [err, entry, calls]: calls are the collaborator calls it made.
RECURSIVE AddDisks(_, _)
AddDisks(e, disks) ==
    IF disks = <<>> THEN [err |-> "nil", entry |-> e]
    ELSE LET r == AddMappedVirtualDisk(e, Head(disks))
         IN  IF r.err # "nil" THEN r ELSE AddDisks(r.entry, Tail(disks))

RECURSIVE AddDirs(_, _)
AddDirs(e, dirs) ==
    IF dirs = <<>> THEN [err |-> "nil", entry |-> e]
    ELSE LET r == AddMappedDirectory(e, Head(dirs))
         IN  IF r.err # "nil" THEN r ELSE AddDirs(r.entry, Tail(dirs))

RECURSIVE RemoveDisks(_, _)
RemoveDisks(e, disks) ==
    IF disks = <<>> THEN e
    ELSE RemoveDisks(RemoveMappedVirtualDisk(e, Head(disks)), Tail(disks))

RECURSIVE RemoveDirs(_, _)
RemoveDirs(e, dirs) ==
    IF dirs = <<>> THEN e
    ELSE RemoveDirs(RemoveMappedDirectory(e, Head(dirs)), Tail(dirs))

setupMappedVirtualDisks(e, disks, ok) ==
    IF ~ok
    THEN [err |-> "StorageFailure", entry |-> e, calls |-> <<>>]
    ELSE [err |-> AddDisks(e, disks).err, entry |-> AddDisks(e, disks).entry,
          calls |-> <<"mount">>]

setupMappedDirectories(e, dirs, ok) ==
    IF ~ok
    THEN [err |-> "StorageFailure", entry |-> e, calls |-> <<>>]
    ELSE [err |-> AddDirs(e, dirs).err, entry |-> AddDirs(e, dirs).entry,
          calls |-> <<"mount">>]

removeMappedVirtualDisks(e, disks, ok) ==
    IF ~ok
    THEN [err |-> "StorageFailure", entry |-> e, calls |-> <<>>]
    ELSE [err |-> "nil", entry |-> RemoveDisks(e, disks),
          calls |-> <<"unmount">>]

removeMappedDirectories(e, dirs, ok) ==
    IF ~ok
    THEN [err |-> "StorageFailure", entry |-> e, calls |-> <<>>]
    ELSE [err |-> "nil", entry |-> RemoveDirs(e, dirs),
          calls |-> <<"unmount">>]

\* ------------------------------------------------------------------ threads
Idle == [pc |-> "idle", op |-> "none", arg |-> 0, entry |-> 0, proc |-> 0, signal |-> 0]
NoRet == [op |-> "none", arg |-> 0, entry |-> 0, err |-> "nil", val |-> 0]
NoSup == [pc |-> "none", proc |-> 0, code |-> 0, err |-> FALSE]
NoAdd == [entry |-> 0]

\* Pids of processes that have not been reaped: the OS hands out no such pid.
LivePids ==
    {psups[i].pid : i \in {j \in 1..Len(psups) :
        \/ psups[j].kind # "init" /\ psups[j].pc = "wait"
        \/ psups[j].kind = "init" /\
             \E e \in 1..Len(sups) : sups[e].proc = j /\ sups[e].pc = "wait"}}

Init ==
    /\ containerCache = [id \in Ids |-> 0]
    /\ entries = <<>>
    /\ processCache = [pid \in Pids |-> 0]
    /\ procs = <<>>
    /\ containerCacheMutex = 0
    /\ processCacheMutex = 0
    /\ thr = [t \in Threads |-> Idle]
    /\ sups = <<>>
    /\ psups = <<>>
    /\ panicked = FALSE
    /\ effects = <<>>
    /\ ret = NoRet
    /\ waited = <<>>
    /\ lastAdd = NoAdd
    /\ returnedPids = {}
    /\ calls = 0

\* A handler returns (err, val) to its caller.
Return(t, op, arg, e, err, val) ==
    /\ thr' = [thr EXCEPT ![t] = Idle]
    /\ ret' = [op |-> op, arg |-> arg, entry |-> e, err |-> err, val |-> val]

\* Variant: a Lock that does not wait for the holder of the mutex.
LockContainerCacheNoWait(t) ==
    /\ ~panicked
    /\ thr[t].pc = "idle"
    /\ calls < MaxCalls
    /\ calls' = calls + 1
    /\ containerCacheMutex \in {0} \cup Threads
    /\ containerCacheMutex' = t
    /\ thr' = [thr EXCEPT ![t] = [Idle EXCEPT !.pc = "locked"]]
    /\ effects' = <<>>
    /\ ret' = NoRet
    /\ UNCHANGED <<containerCache, entries, processCache, procs,
                   processCacheMutex, sups, psups, panicked, waited, lastAdd, returnedPids>>

\* c.containerCacheMutex.Lock(), the first statement of CreateContainer,
\* ExecProcess, SignalContainer, ListProcesses, ModifySettings and
\* WaitContainer, as one of the n requests of the host. The handler the thread
\* is in shows in the step that follows.
LockContainerCacheOf(t, n) ==
    /\ ~panicked
    /\ thr[t].pc = "idle"
    /\ calls < n
    /\ calls' = calls + 1
    /\ containerCacheMutex = 0
    /\ containerCacheMutex' = t
    /\ thr' = [thr EXCEPT ![t] = [Idle EXCEPT !.pc = "locked"]]
    /\ effects' = <<>>
    /\ ret' = NoRet
    /\ UNCHANGED <<containerCache, entries, processCache, procs,
                   processCacheMutex, sups, psups, panicked, waited, lastAdd, returnedPids>>

\* The same of a host that runs one container.
LockContainerCache(t) == LockContainerCacheOf(t, MaxCalls)

\* c.processCacheMutex.Lock(), the first statement of SignalProcess,
\* ResizeConsole and WaitProcess.
LockProcessCache(t) ==
    /\ ~panicked
    /\ thr[t].pc = "idle"
    /\ calls < MaxCalls
    /\ calls' = calls + 1
    /\ processCacheMutex = 0
    /\ processCacheMutex' = t
    /\ thr' = [thr EXCEPT ![t] = [Idle EXCEPT !.pc = "plocked"]]
    /\ effects' = <<>>
    /\ ret' = NoRet
    /\ UNCHANGED <<containerCache, entries, processCache, procs,
                   containerCacheMutex, sups, psups, panicked, waited, lastAdd, returnedPids>>

\* ------------------------------------------------------------------ CreateContainer
\* The settings the host sends: nothing mapped; one disk, one directory and
\* one adapter; a disk list that repeats a Lun; a directory list that repeats
\* a Port.
DiskA == [Lun |-> 0, Path |-> "a"]
DiskB == [Lun |-> 0, Path |-> "b"]
DiskC == [Lun |-> 1, Path |-> "c"]
DirA == [Port |-> 0, Path |-> "a"]
DirB == [Port |-> 0, Path |-> "b"]
\* The descriptors of hot add and hot remove requests.
DiskSet == {DiskA, DiskB, DiskC}
DirSet == {DirA, DirB}
SettingsSet ==
    {[MappedVirtualDisks |-> <<>>, MappedDirectories |-> <<>>, NetworkAdapters |-> <<>>],
     [MappedVirtualDisks |-> <<DiskA>>, MappedDirectories |-> <<DirA>>,
      NetworkAdapters |-> <<"eth0">>],
     [MappedVirtualDisks |-> <<DiskA, DiskB>>, MappedDirectories |-> <<>>,
      NetworkAdapters |-> <<>>],
     [MappedVirtualDisks |-> <<>>, MappedDirectories |-> <<DirA, DirA>>,
      NetworkAdapters |-> <<>>]}
\* The collaborator call that fails during CreateContainer, if any.
CreateFailures == {"none", "disks", "dirs", "getLayerMounts", "mountLayers", "MkdirAll"}

RECURSIVE AddAdapters(_, _)
AddAdapters(e, adapters) ==
    IF adapters = <<>> THEN e
    ELSE AddAdapters(AddNetworkAdapter(e, Head(adapters)), Tail(adapters))

\* The body of CreateContainer after the lookup: [err, entry, calls], entry
\* being the fresh entry as it stands when the function returns.
CreateContainerSteps(id, settings, fail) ==
    LET e0 == [newContainerCacheEntry(id) EXCEPT !.exitWg = 1]
        r1 == setupMappedVirtualDisks(e0, settings.MappedVirtualDisks, fail # "disks")
        r2 == setupMappedDirectories(r1.entry, settings.MappedDirectories, fail # "dirs")
        e3 == AddAdapters(r2.entry, settings.NetworkAdapters)
    IN  IF r1.err # "nil" THEN [err |-> r1.err, entry |-> r1.entry, calls |-> r1.calls]
        ELSE IF r2.err # "nil"
        THEN [err |-> r2.err, entry |-> r2.entry, calls |-> r1.calls \o r2.calls]
        ELSE IF fail = "getLayerMounts"
        THEN [err |-> "StorageFailure", entry |-> r2.entry, calls |-> r1.calls \o r2.calls]
        ELSE IF fail = "mountLayers"
        THEN [err |-> "StorageFailure", entry |-> r2.entry, calls |-> r1.calls \o r2.calls]
        ELSE IF fail = "MkdirAll"
        THEN [err |-> "OSFailure", entry |-> e3,
              calls |-> r1.calls \o r2.calls \o <<"mountLayers">>]
        ELSE [err |-> "nil", entry |-> e3,
              calls |-> r1.calls \o r2.calls \o
                        <<"mountLayers", "MkdirAll">>]

\* Variant: CreateContainer without the lookup of lines 314-316.
CreateContainerOverwrites(t, id, settings, fail) ==
    /\ ~panicked
    /\ thr[t].pc = "locked"
    /\ CreateContainerSteps(id, settings, fail).err = "nil" => Len(entries) < MaxEntries
    /\ LET r == CreateContainerSteps(id, settings, fail)
       IN  /\ effects' = r.calls
           /\ IF r.err # "nil"
              THEN /\ Return(t, "CreateContainer", id, 0, r.err, 0)
                   /\ UNCHANGED <<containerCache, entries, sups>>
              ELSE /\ entries' = Append(entries, r.entry)
                   /\ sups' = Append(sups, NoSup)
                   /\ containerCache' = [containerCache EXCEPT ![id] = Len(entries) + 1]
                   /\ Return(t, "CreateContainer", id, Len(entries) + 1, "nil", 0)
    /\ containerCacheMutex' = 0
    /\ UNCHANGED <<processCache, procs, processCacheMutex, psups, panicked, waited, lastAdd, returnedPids>>
    /\ UNCHANGED calls

\* Variant: CreateContainer with line 361 moved up to line 323, before the
\* steps that can fail.
CreateContainerInsertsFirst(t, id, settings, fail) ==
    /\ ~panicked
    /\ thr[t].pc = "locked"
    /\ getContainer(id) = 0 => Len(entries) < MaxEntries
    /\ IF getContainer(id) # 0
       THEN /\ Return(t, "CreateContainer", id, 0, "ContainerExists", 0)
            /\ effects' = <<>>
            /\ UNCHANGED <<containerCache, entries, sups>>
       ELSE LET r == CreateContainerSteps(id, settings, fail)
            IN  /\ effects' = r.calls
                /\ entries' = Append(entries, r.entry)
                /\ sups' = Append(sups, NoSup)
                /\ containerCache' = [containerCache EXCEPT ![id] = Len(entries) + 1]
                /\ Return(t, "CreateContainer", id,
                          IF r.err = "nil" THEN Len(entries) + 1 ELSE 0, r.err, 0)
    /\ containerCacheMutex' = 0
    /\ UNCHANGED <<processCache, procs, processCacheMutex, psups, panicked, waited, lastAdd, returnedPids>>
    /\ UNCHANGED calls

CreateContainer(t, id, settings, fail) ==
    /\ ~panicked
    /\ thr[t].pc = "locked"
    /\ (getContainer(id) = 0 /\ CreateContainerSteps(id, settings, fail).err = "nil")
           => Len(entries) < MaxEntries
    /\ IF getContainer(id) # 0
       THEN /\ Return(t, "CreateContainer", id, 0, "ContainerExists", 0)
            /\ effects' = <<>>
            /\ UNCHANGED <<containerCache, entries, sups>>
       ELSE LET r == CreateContainerSteps(id, settings, fail)
            IN  /\ effects' = r.calls
                /\ IF r.err # "nil"
                   THEN /\ Return(t, "CreateContainer", id, 0, r.err, 0)
                        /\ UNCHANGED <<containerCache, entries, sups>>
                   ELSE /\ entries' = Append(entries, r.entry)
                        /\ sups' = Append(sups, NoSup)
                        /\ containerCache' = [containerCache EXCEPT ![id] = Len(entries) + 1]
                        /\ Return(t, "CreateContainer", id, Len(entries) + 1, "nil", 0)
    /\ containerCacheMutex' = 0
    /\ UNCHANGED <<processCache, procs, processCacheMutex, psups, panicked, waited, lastAdd, returnedPids>>
    /\ UNCHANGED calls

\* ------------------------------------------------------------------ ExecProcess
\* What container.Wait(), p.Wait() and cmd.Wait() can hand back: an exit state
\* with its code, or an error, after which ExitCode() yields -1.
WaitOutcomes ==
    {[err |-> FALSE, code |-> c] : c \in ExitCodes} \cup
    {[err |-> TRUE, code |-> InitialExitCode]}

\* The collaborator call that fails during ExecProcess, if any.
ExecFailures == {"none", "writeConfigFile", "CreateContainer",
                 "configureAdapterInNamespace", "Start",
                 "processParametersToOCI", "ExecProcess"}

\* Lines 379-440: the first ExecProcess of a container.
ExecInit(t, id, e, fail, tty, pid) ==
    LET marked == [entries[e] EXCEPT !.hasRunInitProcess = TRUE]
        created == [marked EXCEPT !.container = e]
        pe == [newProcessCacheEntry(id) EXCEPT !.exitWg = 1, !.Tty = tty]
        np == Len(procs) + 1
    IN  /\ fail \in {"none", "writeConfigFile", "CreateContainer",
                     "configureAdapterInNamespace", "Start"}
        /\ fail = "configureAdapterInNamespace" => entries[e].NetworkAdapters # <<>>
        /\ panicked' = panicked
        /\ CASE fail = "writeConfigFile" ->
                  /\ entries' = [entries EXCEPT ![e] = [marked EXCEPT !.exitWg = Done(@)]]
                  /\ effects' = <<>>
                  /\ Return(t, "ExecProcess", id, e, "OSFailure", -1)
                  /\ containerCacheMutex' = 0
                  /\ UNCHANGED <<procs, sups, psups>>
             [] fail = "CreateContainer" ->
                  /\ entries' = [entries EXCEPT ![e] = [marked EXCEPT !.exitWg = Done(@)]]
                  /\ effects' = <<"writeConfigFile">>
                  /\ Return(t, "ExecProcess", id, e, "RuntimeFailure", -1)
                  /\ containerCacheMutex' = 0
                  /\ UNCHANGED <<procs, sups, psups>>
             [] fail = "configureAdapterInNamespace" ->
                  /\ entries' = [entries EXCEPT ![e] = [created EXCEPT !.exitWg = Done(@)]]
                  /\ effects' = <<"writeConfigFile", "Rtime.CreateContainer">>
                  /\ Return(t, "ExecProcess", id, e, "OSFailure", -1)
                  /\ containerCacheMutex' = 0
                  /\ UNCHANGED <<procs, sups, psups>>
             [] fail = "Start" ->
                  /\ entries' = [entries EXCEPT ![e] = created]
                  /\ procs' = Append(procs, pe)
                  /\ psups' = Append(psups, [kind |-> "init", pc |-> "wait",
                                             pid |-> pid, code |-> 0, err |-> FALSE])
                  /\ sups' = [sups EXCEPT ![e] = [pc |-> "wait", proc |-> np,
                                                  code |-> 0, err |-> FALSE]]
                  /\ effects' = <<"writeConfigFile", "Rtime.CreateContainer">>
                  /\ Return(t, "ExecProcess", id, e, "RuntimeFailure", -1)
                  /\ containerCacheMutex' = 0
             [] fail = "none" ->
                  /\ entries' = [entries EXCEPT ![e] = created]
                  /\ procs' = Append(procs, pe)
                  /\ psups' = Append(psups, [kind |-> "init", pc |-> "wait",
                                             pid |-> pid, code |-> 0, err |-> FALSE])
                  /\ sups' = [sups EXCEPT ![e] = [pc |-> "wait", proc |-> np,
                                                  code |-> 0, err |-> FALSE]]
                  /\ effects' = <<"writeConfigFile", "Rtime.CreateContainer",
                                  "container.Start">>
                  /\ thr' = [thr EXCEPT ![t] = [pc |-> "insert", op |-> "ExecProcess",
                                                arg |-> pid, entry |-> e, proc |-> np, signal |-> 0]]
                  /\ ret' = NoRet
                  /\ UNCHANGED containerCacheMutex

\* Lines 441-468: a later ExecProcess of the container.
ExecChild(t, id, e, fail, tty, pid) ==
    LET pe == [newProcessCacheEntry(id) EXCEPT !.exitWg = 1, !.Tty = tty]
        np == Len(procs) + 1
    IN  /\ fail \in {"none", "processParametersToOCI", "ExecProcess"}
        /\ UNCHANGED <<entries, sups>>
        /\ CASE fail = "processParametersToOCI" ->
                  /\ effects' = <<>>
                  /\ Return(t, "ExecProcess", id, e, "InvalidArguments", -1)
                  /\ containerCacheMutex' = 0
                  /\ UNCHANGED <<procs, psups, panicked>>
             [] fail # "processParametersToOCI" /\ entries[e].container = 0 ->
                  \* containerEntry.container is a nil interface: the call panics,
                  \* the deferred Unlock runs and the process dies.
                  /\ panicked' = TRUE
                  /\ effects' = <<>>
                  /\ thr' = [thr EXCEPT ![t] = Idle]
                  /\ ret' = NoRet
                  /\ containerCacheMutex' = 0
                  /\ UNCHANGED <<procs, psups>>
             [] fail = "ExecProcess" /\ entries[e].container # 0 ->
                  /\ effects' = <<"container.ExecProcess">>
                  /\ Return(t, "ExecProcess", id, e, "RuntimeFailure", -1)
                  /\ containerCacheMutex' = 0
                  /\ UNCHANGED <<procs, psups, panicked>>
             [] fail = "none" /\ entries[e].container # 0 ->
                  /\ procs' = Append(procs, pe)
                  /\ psups' = Append(psups, [kind |-> "child", pc |-> "wait",
                                             pid |-> pid, code |-> 0, err |-> FALSE])
                  /\ effects' = <<"container.ExecProcess">>
                  /\ thr' = [thr EXCEPT ![t] = [pc |-> "insert", op |-> "ExecProcess",
                                                arg |-> pid, entry |-> e, proc |-> np, signal |-> 0]]
                  /\ ret' = NoRet
                  /\ UNCHANGED <<containerCacheMutex, panicked>>

\* Variant: lines 368-468 without the test of hasRunInitProcess at line 379.
ExecProcessAlwaysInit(t, id, fail, tty, pid) ==
    /\ ~panicked
    /\ thr[t].pc = "locked"
    /\ Len(procs) < MaxProcs
    /\ pid \notin LivePids
    /\ LET e == getContainer(id)
       IN  IF e = 0
           THEN /\ fail = "none"
                /\ Return(t, "ExecProcess", id, 0, "ContainerDoesNotExist", -1)
                /\ effects' = <<>>
                /\ containerCacheMutex' = 0
                /\ UNCHANGED <<entries, procs, sups, psups, panicked>>
           ELSE ExecInit(t, id, e, fail, tty, pid)
    /\ UNCHANGED <<containerCache, processCache, processCacheMutex, waited, lastAdd, returnedPids>>
    /\ UNCHANGED calls

\* Lines 368-468: ExecProcess up to the insertion into processCache.
ExecProcess(t, id, fail, tty, pid) ==
    /\ ~panicked
    /\ thr[t].pc = "locked"
    /\ Len(procs) < MaxProcs
    /\ pid \notin LivePids
    /\ LET e == getContainer(id)
       IN  IF e = 0
           THEN /\ fail = "none"
                /\ Return(t, "ExecProcess", id, 0, "ContainerDoesNotExist", -1)
                /\ effects' = <<>>
                /\ containerCacheMutex' = 0
                /\ UNCHANGED <<entries, procs, sups, psups, panicked>>
           ELSE IF ~entries[e].hasRunInitProcess
                THEN ExecInit(t, id, e, fail, tty, pid)
                ELSE ExecChild(t, id, e, fail, tty, pid)
    /\ UNCHANGED <<containerCache, processCache, processCacheMutex, waited, lastAdd, returnedPids>>
    /\ UNCHANGED calls

\* Line 470 (ExecProcess) and line 638 (RunExternalProcess).
InsertLock(t) ==
    /\ ~panicked
    /\ thr[t].pc = "insert"
    /\ processCacheMutex = 0
    /\ processCacheMutex' = t
    /\ thr' = [thr EXCEPT ![t].pc = "inserting"]
    /\ effects' = <<>>
    /\ ret' = NoRet
    /\ UNCHANGED <<containerCache, entries, processCache, procs,
                   containerCacheMutex, sups, psups, panicked, waited, lastAdd, returnedPids>>
    /\ UNCHANGED calls

\* Lines 483-484 (ExecProcess) and lines 639-641 (RunExternalProcess): the
\* entry is stored and processCacheMutex unlocked. RunExternalProcess returns
\* the pid; ExecProcess still holds containerCacheMutex.
Insert(t) ==
    /\ ~panicked
    /\ thr[t].pc = "inserting"
    /\ processCache' = [processCache EXCEPT ![thr[t].arg] = thr[t].proc]
    /\ processCacheMutex' = 0
    /\ IF thr[t].op = "ExecProcess"
       THEN /\ thr' = [thr EXCEPT ![t].pc = "inserted"]
            /\ ret' = NoRet
            /\ UNCHANGED returnedPids
       ELSE /\ Return(t, thr[t].op, thr[t].arg, thr[t].entry, "nil", thr[t].arg)
            /\ returnedPids' = returnedPids \cup {thr[t].arg}
    /\ effects' = <<>>
    /\ UNCHANGED <<containerCache, entries, procs, containerCacheMutex, sups, psups,
                   panicked, waited, lastAdd>>
    /\ UNCHANGED calls

\* Line 485 of ExecProcess: return p.Pid(), nil; the deferred Unlock of line
\* 370 releases containerCacheMutex.
ExecProcessReturn(t) ==
    /\ ~panicked
    /\ thr[t].pc = "inserted"
    /\ containerCacheMutex' = 0
    /\ Return(t, "ExecProcess", thr[t].arg, thr[t].entry, "nil", thr[t].arg)
    /\ returnedPids' = returnedPids \cup {thr[t].arg}
    /\ effects' = <<>>
    /\ UNCHANGED <<containerCache, entries, processCache, procs, processCacheMutex,
                   sups, psups, panicked, waited, lastAdd>>
    /\ UNCHANGED calls

\* ------------------------------------------------------------------ init supervisor
\* The goroutine of lines 405-436, one statement group per action.

\* cleanupContainer: unmounts the mapped directories, disks and layers of the
\* entry; its error (ok = FALSE) is logged. It leaves the entry as it is.
cleanupContainer(e, ok) == <<"cleanupContainer", ok>>

\* Line 406: container.Wait() returns.
SupWait(e, outcome) ==
    /\ ~panicked
    /\ sups[e].pc = "wait"
    /\ sups' = [sups EXCEPT ![e].pc = "lock", ![e].code = outcome.code,
                            ![e].err = outcome.err]
    /\ effects' = <<>>
    /\ ret' = NoRet
    /\ UNCHANGED <<containerCache, entries, processCache, procs, containerCacheMutex,
                   processCacheMutex, thr, psups, panicked, waited, lastAdd, returnedPids>>
    /\ UNCHANGED calls

\* Line 407.
SupLock(e) ==
    /\ ~panicked
    /\ sups[e].pc = "lock"
    /\ containerCacheMutex = 0
    /\ containerCacheMutex' = -e
    /\ sups' = [sups EXCEPT ![e].pc = "cleanup"]
    /\ effects' = <<>>
    /\ ret' = NoRet
    /\ UNCHANGED <<containerCache, entries, processCache, procs,
                   processCacheMutex, thr, psups, panicked, waited, lastAdd, returnedPids>>
    /\ UNCHANGED calls

\* Variant: lines 408-420 with delete(c.containerCache, id) done here, under
\* the first Lock.
SupCleanupDeletes(e, ok) ==
    /\ ~panicked
    /\ sups[e].pc = "cleanup"
    /\ effects' = cleanupContainer(e, ok)
    /\ containerCache' = [containerCache EXCEPT ![entries[e].ID] = 0]
    /\ containerCacheMutex' = 0
    /\ sups' = [sups EXCEPT ![e].pc = "setProcessExitCode"]
    /\ ret' = NoRet
    /\ UNCHANGED <<entries, processCache, procs,
                   processCacheMutex, thr, psups, panicked, waited, lastAdd, returnedPids>>
    /\ UNCHANGED calls

\* Variant: lines 408-420 with a return after the cleanup of a wait error.
SupCleanupReturnsOnError(e, ok) ==
    /\ ~panicked
    /\ sups[e].pc = "cleanup"
    /\ effects' = cleanupContainer(e, ok)
    /\ containerCacheMutex' = 0
    /\ sups' = [sups EXCEPT ![e].pc = IF sups[e].err THEN "finished"
                                                     ELSE "setProcessExitCode"]
    /\ ret' = NoRet
    /\ UNCHANGED <<containerCache, entries, processCache, procs,
                   processCacheMutex, thr, psups, panicked, waited, lastAdd, returnedPids>>
    /\ UNCHANGED calls

\* Lines 408-420: cleanup (twice after a wait error), then Unlock.
SupCleanup(e, ok) ==
    /\ ~panicked
    /\ sups[e].pc = "cleanup"
    /\ effects' = IF sups[e].err THEN cleanupContainer(e, ok) \o cleanupContainer(e, ok)
                                 ELSE cleanupContainer(e, ok)
    /\ containerCacheMutex' = 0
    /\ sups' = [sups EXCEPT ![e].pc = "setProcessExitCode"]
    /\ ret' = NoRet
    /\ UNCHANGED <<containerCache, entries, processCache, procs,
                   processCacheMutex, thr, psups, panicked, waited, lastAdd, returnedPids>>
    /\ UNCHANGED calls

\* Variant: line 423 left out.
SupSetProcessExitCodeSkipped(e) ==
    /\ ~panicked
    /\ sups[e].pc = "setProcessExitCode"
    /\ sups' = [sups EXCEPT ![e].pc = "processDone"]
    /\ effects' = <<>>
    /\ ret' = NoRet
    /\ UNCHANGED <<containerCache, entries, processCache, procs, containerCacheMutex,
                   processCacheMutex, thr, psups, panicked, waited, lastAdd, returnedPids>>
    /\ UNCHANGED calls

\* Line 423.
SupSetProcessExitCode(e) ==
    /\ ~panicked
    /\ sups[e].pc = "setProcessExitCode"
    /\ procs' = [procs EXCEPT ![sups[e].proc].exitCode = sups[e].code]
    /\ sups' = [sups EXCEPT ![e].pc = "processDone"]
    /\ effects' = <<>>
    /\ ret' = NoRet
    /\ UNCHANGED <<containerCache, entries, processCache, containerCacheMutex,
                   processCacheMutex, thr, psups, panicked, waited, lastAdd, returnedPids>>
    /\ UNCHANGED calls

\* Variant: line 424 left out.
SupProcessDoneSkipped(e) ==
    /\ ~panicked
    /\ sups[e].pc = "processDone"
    /\ sups' = [sups EXCEPT ![e].pc = "setExitCode"]
    /\ effects' = <<>>
    /\ ret' = NoRet
    /\ UNCHANGED <<containerCache, entries, processCache, procs, containerCacheMutex,
                   processCacheMutex, thr, psups, panicked, waited, lastAdd, returnedPids>>
    /\ UNCHANGED calls

\* Line 424.
SupProcessDone(e) ==
    /\ ~panicked
    /\ sups[e].pc = "processDone"
    /\ procs' = [procs EXCEPT ![sups[e].proc].exitWg = Done(@)]
    /\ sups' = [sups EXCEPT ![e].pc = "setExitCode"]
    /\ effects' = <<>>
    /\ ret' = NoRet
    /\ UNCHANGED <<containerCache, entries, processCache, containerCacheMutex,
                   processCacheMutex, thr, psups, panicked, waited, lastAdd, returnedPids>>
    /\ UNCHANGED calls

\* Variant: line 427 left out.
SupSetExitCodeSkipped(e) ==
    /\ ~panicked
    /\ sups[e].pc = "setExitCode"
    /\ sups' = [sups EXCEPT ![e].pc = "done"]
    /\ effects' = <<>>
    /\ ret' = NoRet
    /\ UNCHANGED <<containerCache, entries, processCache, procs, containerCacheMutex,
                   processCacheMutex, thr, psups, panicked, waited, lastAdd, returnedPids>>
    /\ UNCHANGED calls

\* Line 427.
SupSetExitCode(e) ==
    /\ ~panicked
    /\ sups[e].pc = "setExitCode"
    /\ entries' = [entries EXCEPT ![e].exitCode = sups[e].code]
    /\ sups' = [sups EXCEPT ![e].pc = "done"]
    /\ effects' = <<>>
    /\ ret' = NoRet
    /\ UNCHANGED <<containerCache, processCache, procs, containerCacheMutex,
                   processCacheMutex, thr, psups, panicked, waited, lastAdd, returnedPids>>
    /\ UNCHANGED calls

\* Line 428.
SupDone(e) ==
    /\ ~panicked
    /\ sups[e].pc = "done"
    /\ entries' = [entries EXCEPT ![e].exitWg = Done(@)]
    /\ sups' = [sups EXCEPT ![e].pc = "lock2"]
    /\ effects' = <<>>
    /\ ret' = NoRet
    /\ UNCHANGED <<containerCache, processCache, procs, containerCacheMutex,
                   processCacheMutex, thr, psups, panicked, waited, lastAdd, returnedPids>>
    /\ UNCHANGED calls

\* Line 430.
SupLock2(e) ==
    /\ ~panicked
    /\ sups[e].pc = "lock2"
    /\ containerCacheMutex = 0
    /\ containerCacheMutex' = -e
    /\ sups' = [sups EXCEPT ![e].pc = "delete"]
    /\ effects' = <<>>
    /\ ret' = NoRet
    /\ UNCHANGED <<containerCache, entries, processCache, procs,
                   processCacheMutex, thr, psups, panicked, waited, lastAdd, returnedPids>>
    /\ UNCHANGED calls

\* Lines 434-435: delete(c.containerCache, id), Unlock.
SupDelete(e) ==
    /\ ~panicked
    /\ sups[e].pc = "delete"
    /\ containerCache' = [containerCache EXCEPT ![entries[e].ID] = 0]
    /\ containerCacheMutex' = 0
    /\ sups' = [sups EXCEPT ![e].pc = "finished"]
    /\ effects' = <<>>
    /\ ret' = NoRet
    /\ UNCHANGED <<entries, processCache, procs,
                   processCacheMutex, thr, psups, panicked, waited, lastAdd, returnedPids>>
    /\ UNCHANGED calls

\* ------------------------------------------------------------------ process supervisors
\* The goroutines of lines 453-467 (kind "child") and 616-635 (kind "ext").

\* Variant: line 461 left out, and line 633 when there is no relay.
ProcExitNoRecord(p, outcome) ==
    /\ ~panicked
    /\ psups[p].kind \in {"child", "ext"}
    /\ psups[p].pc = "wait"
    /\ psups' = [psups EXCEPT
                   ![p].pc = IF psups[p].kind = "ext" /\ procs[p].Tty
                             THEN "relay" ELSE "done",
                   ![p].code = outcome.code, ![p].err = outcome.err]
    /\ effects' = <<>>
    /\ ret' = NoRet
    /\ UNCHANGED <<containerCache, entries, processCache, procs, containerCacheMutex,
                   processCacheMutex, thr, sups, panicked, waited, lastAdd, returnedPids>>
    /\ UNCHANGED calls

\* Lines 454-461 and 617-633: the wait returns (its error is logged) and the
\* exit code is read. The supervisor of a container process, and of a host
\* process without a relay, writes the code to the entry; the supervisor of a
\* host process with a relay goes on to relay.Wait() first (lines 628-630).
ProcExit(p, outcome) ==
    /\ ~panicked
    /\ psups[p].kind \in {"child", "ext"}
    /\ psups[p].pc = "wait"
    /\ IF psups[p].kind = "ext" /\ procs[p].Tty
       THEN /\ psups' = [psups EXCEPT ![p].pc = "relay", ![p].code = outcome.code,
                                      ![p].err = outcome.err]
            /\ UNCHANGED procs
       ELSE /\ procs' = [procs EXCEPT ![p].exitCode = outcome.code]
            /\ psups' = [psups EXCEPT ![p].pc = "done", ![p].code = outcome.code,
                                      ![p].err = outcome.err]
    /\ effects' = <<>>
    /\ ret' = NoRet
    /\ UNCHANGED <<containerCache, entries, processCache, containerCacheMutex,
                   processCacheMutex, thr, sups, panicked, waited, lastAdd, returnedPids>>
    /\ UNCHANGED calls

\* Lines 628-633: relay.Wait() returns and the exit code is written to the
\* entry of the host process.
RelayWait(p) ==
    /\ ~panicked
    /\ psups[p].pc = "relay"
    /\ procs' = [procs EXCEPT ![p].exitCode = psups[p].code]
    /\ psups' = [psups EXCEPT ![p].pc = "done"]
    /\ effects' = <<"relay.Wait">>
    /\ ret' = NoRet
    /\ UNCHANGED <<containerCache, entries, processCache, containerCacheMutex,
                   processCacheMutex, thr, sups, panicked, waited, lastAdd, returnedPids>>
    /\ UNCHANGED calls

\* Lines 462 and 634.
ProcDone(p) ==
    /\ ~panicked
    /\ psups[p].pc = "done"
    /\ procs' = [procs EXCEPT ![p].exitWg = Done(@)]
    /\ psups' = [psups EXCEPT ![p].pc = IF psups[p].kind = "child" THEN "delete"
                                                                  ELSE "finished"]
    /\ effects' = <<>>
    /\ ret' = NoRet
    /\ UNCHANGED <<containerCache, entries, processCache, containerCacheMutex,
                   processCacheMutex, thr, sups, panicked, waited, lastAdd, returnedPids>>
    /\ UNCHANGED calls

\* Variant: lines 464-466 with a delete(c.processCache, pid) after p.Delete().
ProcDeleteUnregisters(p, ok) ==
    /\ ~panicked
    /\ psups[p].pc = "delete"
    /\ psups' = [psups EXCEPT ![p].pc = "finished"]
    /\ processCache' = [processCache EXCEPT ![psups[p].pid] = 0]
    /\ effects' = <<"p.Delete", ok>>
    /\ ret' = NoRet
    /\ UNCHANGED <<containerCache, entries, procs, containerCacheMutex,
                   processCacheMutex, thr, sups, panicked, waited, lastAdd, returnedPids>>
    /\ UNCHANGED calls

\* Lines 464-466: p.Delete(); its error (ok = FALSE) is logged.
ProcDelete(p, ok) ==
    /\ ~panicked
    /\ psups[p].pc = "delete"
    /\ psups' = [psups EXCEPT ![p].pc = "finished"]
    /\ effects' = <<"p.Delete", ok>>
    /\ ret' = NoRet
    /\ UNCHANGED <<containerCache, entries, processCache, procs, containerCacheMutex,
                   processCacheMutex, thr, sups, panicked, waited, lastAdd, returnedPids>>
    /\ UNCHANGED calls

\* ------------------------------------------------------------------ waits
\* Variant: lines 713-719 treating an entry whose latch is released as gone.
WaitContainerLookupLiveOnly(t, id) ==
    /\ ~panicked
    /\ thr[t].pc = "locked"
    /\ containerCacheMutex' = 0
    /\ IF getContainer(id) = 0 \/ entries[getContainer(id)].exitWg = 0
       THEN Return(t, "WaitContainer", id, 0, "ContainerDoesNotExist", -1)
       ELSE /\ thr' = [thr EXCEPT ![t] = [pc |-> "wait", op |-> "WaitContainer",
                                          arg |-> id, entry |-> getContainer(id),
                                          proc |-> 0, signal |-> 0]]
            /\ ret' = NoRet
    /\ effects' = <<>>
    /\ UNCHANGED <<containerCache, entries, processCache, procs,
                   processCacheMutex, sups, psups, panicked, waited, lastAdd, returnedPids>>
    /\ UNCHANGED calls

\* Variant: lines 713-718 without the Unlock of line 719 before the Wait.
WaitContainerLookupKeepsMutex(t, id) ==
    /\ ~panicked
    /\ thr[t].pc = "locked"
    /\ IF getContainer(id) = 0
       THEN /\ Return(t, "WaitContainer", id, 0, "ContainerDoesNotExist", -1)
            /\ containerCacheMutex' = 0
       ELSE /\ thr' = [thr EXCEPT ![t] = [pc |-> "wait", op |-> "WaitContainer",
                                          arg |-> id, entry |-> getContainer(id),
                                          proc |-> 0, signal |-> 0]]
            /\ ret' = NoRet
            /\ UNCHANGED containerCacheMutex
    /\ effects' = <<>>
    /\ UNCHANGED <<containerCache, entries, processCache, procs,
                   processCacheMutex, sups, psups, panicked, waited, lastAdd, returnedPids>>
    /\ UNCHANGED calls

\* Lines 713-719.
WaitContainerLookup(t, id) ==
    /\ ~panicked
    /\ thr[t].pc = "locked"
    /\ containerCacheMutex' = 0
    /\ IF getContainer(id) = 0
       THEN Return(t, "WaitContainer", id, 0, "ContainerDoesNotExist", -1)
       ELSE /\ thr' = [thr EXCEPT ![t] = [pc |-> "wait", op |-> "WaitContainer",
                                          arg |-> id, entry |-> getContainer(id),
                                          proc |-> 0, signal |-> 0]]
            /\ ret' = NoRet
    /\ effects' = <<>>
    /\ UNCHANGED <<containerCache, entries, processCache, procs,
                   processCacheMutex, sups, psups, panicked, waited, lastAdd, returnedPids>>
    /\ UNCHANGED calls

\* Variant: lines 721-722 without the exitWg.Wait().
WaitContainerReturnEarly(t) ==
    /\ ~panicked
    /\ thr[t].pc = "wait" /\ thr[t].op = "WaitContainer"
    /\ Return(t, "WaitContainer", thr[t].arg, thr[t].entry, "nil",
              entries[thr[t].entry].exitCode)
    /\ waited' = Append(waited, [by |-> t, entry |-> thr[t].entry,
                                  val |-> entries[thr[t].entry].exitCode])
    /\ UNCHANGED <<lastAdd, returnedPids>>
    /\ effects' = <<>>
    /\ UNCHANGED <<containerCache, entries, processCache, procs, containerCacheMutex,
                   processCacheMutex, sups, psups, panicked>>
    /\ UNCHANGED calls

\* Lines 721-722: entry.exitWg.Wait() returns; return entry.exitCode.
WaitContainerReturn(t) ==
    /\ ~panicked
    /\ thr[t].pc = "wait" /\ thr[t].op = "WaitContainer"
    /\ entries[thr[t].entry].exitWg = 0
    /\ Return(t, "WaitContainer", thr[t].arg, thr[t].entry, "nil",
              entries[thr[t].entry].exitCode)
    /\ waited' = Append(waited, [by |-> t, entry |-> thr[t].entry,
                                  val |-> entries[thr[t].entry].exitCode])
    /\ UNCHANGED <<lastAdd, returnedPids>>
    /\ effects' = <<>>
    /\ UNCHANGED <<containerCache, entries, processCache, procs, containerCacheMutex,
                   processCacheMutex, sups, psups, panicked>>
    /\ UNCHANGED calls

\* Variant: lines 727-733 without the Unlock of line 730 on the error return.
WaitProcessLookupLeaksMutex(t, pid) ==
    /\ ~panicked
    /\ thr[t].pc = "plocked"
    /\ IF processCache[pid] = 0
       THEN /\ Return(t, "WaitProcess", pid, 0, "ProcessDoesNotExist", -1)
            /\ UNCHANGED processCacheMutex
       ELSE /\ thr' = [thr EXCEPT ![t] = [pc |-> "wait", op |-> "WaitProcess",
                                          arg |-> pid, entry |-> 0,
                                          proc |-> processCache[pid], signal |-> 0]]
            /\ ret' = NoRet
            /\ processCacheMutex' = 0
    /\ effects' = <<>>
    /\ UNCHANGED <<containerCache, entries, processCache, procs,
                   containerCacheMutex, sups, psups, panicked, waited, lastAdd, returnedPids>>
    /\ UNCHANGED calls

\* Lines 727-733.
WaitProcessLookup(t, pid) ==
    /\ ~panicked
    /\ thr[t].pc = "plocked"
    /\ processCacheMutex' = 0
    /\ IF processCache[pid] = 0
       THEN Return(t, "WaitProcess", pid, 0, "ProcessDoesNotExist", -1)
       ELSE /\ thr' = [thr EXCEPT ![t] = [pc |-> "wait", op |-> "WaitProcess",
                                          arg |-> pid, entry |-> 0,
                                          proc |-> processCache[pid], signal |-> 0]]
            /\ ret' = NoRet
    /\ effects' = <<>>
    /\ UNCHANGED <<containerCache, entries, processCache, procs,
                   containerCacheMutex, sups, psups, panicked, waited, lastAdd, returnedPids>>
    /\ UNCHANGED calls

\* Lines 735-736.
WaitProcessReturn(t) ==
    /\ ~panicked
    /\ thr[t].pc = "wait" /\ thr[t].op = "WaitProcess"
    /\ procs[thr[t].proc].exitWg = 0
    /\ thr' = [thr EXCEPT ![t] = Idle]
    /\ ret' = [op |-> "WaitProcess", arg |-> thr[t].arg, entry |-> thr[t].proc,
               err |-> "nil", val |-> procs[thr[t].proc].exitCode]
    /\ effects' = <<>>
    /\ UNCHANGED <<containerCache, entries, processCache, procs, containerCacheMutex,
                   processCacheMutex, sups, psups, panicked, waited, lastAdd, returnedPids>>
    /\ UNCHANGED calls

\* ------------------------------------------------------------------ signals, list
\* Variant: lines 489-505 reporting success whatever container.Kill returned.
SignalContainerDropsError(t, id, signal, killOk) ==
    /\ ~panicked
    /\ thr[t].pc = "locked"
    /\ LET e == getContainer(id)
       IN  IF e = 0
           THEN /\ Return(t, "SignalContainer", id, 0, "ContainerDoesNotExist", 0)
                /\ effects' = <<>>
           ELSE /\ effects' = IF entries[e].container # 0
                              THEN <<"container.Kill", signal>> ELSE <<>>
                /\ Return(t, "SignalContainer", id, e, "nil", 0)
    /\ containerCacheMutex' = 0
    /\ UNCHANGED <<containerCache, entries, processCache, procs,
                   processCacheMutex, sups, psups, panicked, waited, lastAdd, returnedPids>>
    /\ UNCHANGED calls

\* Lines 489-505. killOk: whether container.Kill succeeds.
SignalContainer(t, id, signal, killOk) ==
    /\ ~panicked
    /\ thr[t].pc = "locked"
    /\ LET e == getContainer(id)
       IN  IF e = 0
           THEN /\ Return(t, "SignalContainer", id, 0, "ContainerDoesNotExist", 0)
                /\ effects' = <<>>
           ELSE IF entries[e].container # 0
           THEN /\ effects' = <<"container.Kill", signal>>
                /\ Return(t, "SignalContainer", id, e,
                          IF killOk THEN "nil" ELSE "RuntimeFailure", 0)
           ELSE /\ effects' = <<>>
                /\ Return(t, "SignalContainer", id, e, "nil", 0)
    /\ containerCacheMutex' = 0
    /\ UNCHANGED <<containerCache, entries, processCache, procs,
                   processCacheMutex, sups, psups, panicked, waited, lastAdd, returnedPids>>
    /\ UNCHANGED calls

\* Variant: lines 509-514 without the test of line 510.
SignalProcessNoLookup(t, pid, signal) ==
    /\ ~panicked
    /\ thr[t].pc = "plocked"
    /\ processCacheMutex' = 0
    /\ thr' = [thr EXCEPT ![t] = [pc |-> "kill", op |-> "SignalProcess",
                                  arg |-> pid, entry |-> 0,
                                  proc |-> processCache[pid], signal |-> signal]]
    /\ ret' = NoRet
    /\ effects' = <<>>
    /\ UNCHANGED <<containerCache, entries, processCache, procs,
                   containerCacheMutex, sups, psups, panicked, waited, lastAdd, returnedPids>>
    /\ UNCHANGED calls

\* Lines 509-514: the lookup of the pid under processCacheMutex; the mutex is
\* unlocked before the signal is sent.
SignalProcess(t, pid, signal) ==
    /\ ~panicked
    /\ thr[t].pc = "plocked"
    /\ processCacheMutex' = 0
    /\ IF processCache[pid] = 0
       THEN Return(t, "SignalProcess", pid, 0, "ProcessDoesNotExist", 0)
       ELSE /\ thr' = [thr EXCEPT ![t] = [pc |-> "kill", op |-> "SignalProcess",
                                          arg |-> pid, entry |-> 0,
                                          proc |-> processCache[pid],
                                          signal |-> signal]]
            /\ ret' = NoRet
    /\ effects' = <<>>
    /\ UNCHANGED <<containerCache, entries, processCache, procs,
                   containerCacheMutex, sups, psups, panicked, waited, lastAdd, returnedPids>>
    /\ UNCHANGED calls

\* Variant: lines 516-530 without the special case of lines 520-521.
SignalProcessKillForwardsZero(t, killOk) ==
    /\ ~panicked
    /\ thr[t].pc = "kill"
    /\ effects' = <<"OS.Kill", thr[t].arg, thr[t].signal>>
    /\ Return(t, "SignalProcess", thr[t].arg, thr[t].proc,
              IF killOk THEN "nil" ELSE "OSFailure", 0)
    /\ UNCHANGED <<containerCache, entries, processCache, procs, containerCacheMutex,
                   processCacheMutex, sups, psups, panicked, waited, lastAdd, returnedPids>>
    /\ UNCHANGED calls

\* Lines 516-530, without a mutex: signal 0 becomes SIGKILL, c.OS.Kill(pid,
\* signal) is called and its error returned. killOk: whether OS.Kill succeeds.
\* ret.entry is the entry the lookup found.
SignalProcessKill(t, killOk) ==
    /\ ~panicked
    /\ thr[t].pc = "kill"
    /\ effects' = <<"OS.Kill", thr[t].arg,
                    IF thr[t].signal = 0 THEN SIGKILL ELSE thr[t].signal>>
    /\ Return(t, "SignalProcess", thr[t].arg, thr[t].proc,
              IF killOk THEN "nil" ELSE "OSFailure", 0)
    /\ UNCHANGED <<containerCache, entries, processCache, procs, containerCacheMutex,
                   processCacheMutex, sups, psups, panicked, waited, lastAdd, returnedPids>>
    /\ UNCHANGED calls

\* Lines 534-552. ok: whether container.GetAllProcesses succeeds.
ListProcesses(t, id, ok) ==
    /\ ~panicked
    /\ thr[t].pc = "locked"
    /\ LET e == getContainer(id)
       IN  IF e = 0
           THEN /\ Return(t, "ListProcesses", id, 0, "ContainerDoesNotExist", 0)
                /\ effects' = <<>>
           ELSE IF entries[e].container = 0
           THEN /\ effects' = <<>>
                /\ Return(t, "ListProcesses", id, e, "nil", 0)
           ELSE /\ effects' = <<"container.GetAllProcesses">>
                /\ Return(t, "ListProcesses", id, e,
                          IF ok THEN "nil" ELSE "RuntimeFailure", 0)
    /\ containerCacheMutex' = 0
    /\ UNCHANGED <<containerCache, entries, processCache, procs,
                   processCacheMutex, sups, psups, panicked, waited, lastAdd, returnedPids>>
    /\ UNCHANGED calls

\* Lines 695-702: the lookup of the pid under processCacheMutex; the mutex is
\* unlocked before the entry's Tty is looked at.
ResizeConsole(t, pid) ==
    /\ ~panicked
    /\ thr[t].pc = "plocked"
    /\ processCacheMutex' = 0
    /\ IF processCache[pid] = 0
       THEN Return(t, "ResizeConsole", pid, 0, "ProcessDoesNotExist", 0)
       ELSE /\ thr' = [thr EXCEPT ![t] = [pc |-> "resize", op |-> "ResizeConsole",
                                          arg |-> pid, entry |-> 0,
                                          proc |-> processCache[pid], signal |-> 0]]
            /\ ret' = NoRet
    /\ effects' = <<>>
    /\ UNCHANGED <<containerCache, entries, processCache, procs,
                   containerCacheMutex, sups, psups, panicked, waited, lastAdd, returnedPids>>
    /\ UNCHANGED calls

\* Variant: lines 704-708 without the test of lines 704-706.
ResizeConsoleTtyAnyProcess(t, ok) ==
    /\ ~panicked
    /\ thr[t].pc = "resize"
    /\ effects' = <<"Tty.ResizeConsole">>
    /\ Return(t, "ResizeConsole", thr[t].arg, thr[t].proc,
              IF ok THEN "nil" ELSE "OSFailure", 0)
    /\ UNCHANGED <<containerCache, entries, processCache, procs, containerCacheMutex,
                   processCacheMutex, sups, psups, panicked, waited, lastAdd, returnedPids>>
    /\ UNCHANGED calls

\* Lines 704-708, without a mutex, on the entry p the lookup found. ok: whether
\* the relay's ResizeConsole succeeds.
ResizeConsoleTty(t, ok) ==
    /\ ~panicked
    /\ thr[t].pc = "resize"
    /\ IF ~procs[thr[t].proc].Tty
       THEN /\ Return(t, "ResizeConsole", thr[t].arg, thr[t].proc, "NotATerminal", 0)
            /\ effects' = <<>>
       ELSE /\ effects' = <<"Tty.ResizeConsole">>
            /\ Return(t, "ResizeConsole", thr[t].arg, thr[t].proc,
                      IF ok THEN "nil" ELSE "OSFailure", 0)
    /\ UNCHANGED <<containerCache, entries, processCache, procs, containerCacheMutex,
                   processCacheMutex, sups, psups, panicked, waited, lastAdd, returnedPids>>
    /\ UNCHANGED calls

\* ------------------------------------------------------------------ ModifySettings
RequestTypes == {"Add", "Remove", "Update"}
ResourceTypes == {"MappedVirtualDisk", "MappedDirectory", "Memory"}

\* Variant: lines 656-691 with the default cases of lines 671-672, 684-685
\* and 687-688 falling through to the return nil of line 691.
ModifySettingsStepsIgnoresOthers(e, requestType, resourceType, castOk, disk, dir, ok) ==
    LET ignored == [err |-> "nil", entry |-> e, calls |-> <<>>]
    IN  IF ~castOk THEN [err |-> "InvalidArguments", entry |-> e, calls |-> <<>>]
        ELSE CASE requestType = "Add" ->
                    (CASE resourceType = "MappedVirtualDisk" ->
                              setupMappedVirtualDisks(e, <<disk>>, ok)
                       [] resourceType = "MappedDirectory" ->
                              setupMappedDirectories(e, <<dir>>, ok)
                       [] OTHER -> ignored)
               [] requestType = "Remove" ->
                    (CASE resourceType = "MappedVirtualDisk" ->
                              removeMappedVirtualDisks(e, <<disk>>, ok)
                       [] resourceType = "MappedDirectory" ->
                              removeMappedDirectories(e, <<dir>>, ok)
                       [] OTHER -> ignored)
               [] OTHER -> ignored

\* Lines 656-691: the request applied to entry e. castOk: request.Settings is a
\* ResourceModificationSettings; ok: the OS mounts (unmounts) succeed.
ModifySettingsSteps(e, requestType, resourceType, castOk, disk, dir, ok) ==
    LET unsupported == [err |-> "UnsupportedRequest", entry |-> e, calls |-> <<>>]
    IN  IF ~castOk THEN [err |-> "InvalidArguments", entry |-> e, calls |-> <<>>]
        ELSE CASE requestType = "Add" ->
                    (CASE resourceType = "MappedVirtualDisk" ->
                              setupMappedVirtualDisks(e, <<disk>>, ok)
                       [] resourceType = "MappedDirectory" ->
                              setupMappedDirectories(e, <<dir>>, ok)
                       [] OTHER -> unsupported)
               [] requestType = "Remove" ->
                    (CASE resourceType = "MappedVirtualDisk" ->
                              removeMappedVirtualDisks(e, <<disk>>, ok)
                       [] resourceType = "MappedDirectory" ->
                              removeMappedDirectories(e, <<dir>>, ok)
                       [] OTHER -> unsupported)
               [] OTHER -> unsupported

\* The requests the host sends: one whose Settings are of another type; every
\* pair of request and resource type; for the pairs that mount or unmount,
\* each descriptor, with the OS call succeeding (ok) or failing.
ModifyRequests ==
    {r \in [requestType : RequestTypes, resourceType : ResourceTypes,
            castOk : BOOLEAN, disk : DiskSet, dir : DirSet,
            ok : BOOLEAN] :
        /\ r.resourceType # "MappedVirtualDisk" => r.disk = DiskA
        /\ r.resourceType # "MappedDirectory" => r.dir = DirA
        /\ (r.requestType = "Update" \/ r.resourceType = "Memory") => r.ok
        /\ ~r.castOk => (/\ r.requestType = "Add" /\ r.resourceType = "Memory"
                         /\ r.ok)}

\* Lines 647-692. lastAdd records a request that added a disk, with the disk
\* map it found, then the request that removed this disk if it is the next
\* one, and is cleared by any other request.
ModifySettings(t, id, requestType, resourceType, castOk, disk, dir, ok) ==
    /\ ~panicked
    /\ thr[t].pc = "locked"
    /\ LET e == getContainer(id)
       IN  IF e = 0
           THEN /\ Return(t, "ModifySettings", id, 0, "ContainerDoesNotExist", 0)
                /\ effects' = <<>>
                /\ lastAdd' = NoAdd
                /\ UNCHANGED entries
           ELSE LET r == ModifySettingsSteps(entries[e], requestType, resourceType,
                                             castOk, disk, dir, ok)
                IN  /\ entries' = [entries EXCEPT ![e] = r.entry]
                    /\ effects' = r.calls
                    /\ lastAdd' =
                          IF /\ castOk /\ resourceType = "MappedVirtualDisk"
                             /\ requestType = "Add" /\ r.err = "nil"
                          THEN [entry |-> e, disk |-> disk, removed |-> FALSE,
                                before |-> entries[e].MappedVirtualDisks]
                          ELSE IF /\ castOk /\ resourceType = "MappedVirtualDisk"
                                  /\ requestType = "Remove" /\ r.err = "nil"
                                  /\ lastAdd.entry = e /\ ~lastAdd.removed
                                  /\ lastAdd.disk = disk
                          THEN [lastAdd EXCEPT !.removed = TRUE]
                          ELSE NoAdd
                    /\ Return(t, "ModifySettings", id, e, r.err, 0)
    /\ containerCacheMutex' = 0
    /\ UNCHANGED <<containerCache, processCache, procs,
                   processCacheMutex, sups, psups, panicked, waited, returnedPids>>
    /\ UNCHANGED calls

\* ModifySettings called with request r.
ModifyStep(t, id, r) ==
    ModifySettings(t, id, r.requestType, r.resourceType, r.castOk,
                   r.disk, r.dir, r.ok)

\* ------------------------------------------------------------------ RunExternalProcess
\* The call that fails during RunExternalProcess, if any.
RunFailures == {"none", "processParametersToOCI", "stdio", "Start"}

\* Lines 558-637: up to the insertion into processCache. console is
\* params.EmulateConsole.
RunExternalProcess(t, fail, console, pid) ==
    /\ ~panicked
    /\ thr[t].pc = "idle"
    /\ calls < MaxCalls
    /\ calls' = calls + 1
    /\ Len(procs) < MaxProcs
    /\ pid \notin LivePids
    /\ IF fail # "none"
       THEN /\ Return(t, "RunExternalProcess", 0, 0,
                      IF fail = "processParametersToOCI" THEN "InvalidArguments"
                                                         ELSE "OSFailure", -1)
            /\ effects' = <<>>
            /\ UNCHANGED <<procs, psups>>
       ELSE /\ procs' = Append(procs, [newProcessCacheEntry("") EXCEPT
                                          !.exitWg = 1, !.Tty = console])
            /\ psups' = Append(psups, [kind |-> "ext", pc |-> "wait",
                                       pid |-> pid, code |-> 0, err |-> FALSE])
            /\ effects' = <<"cmd.Start">>
            /\ thr' = [thr EXCEPT ![t] = [pc |-> "insert", op |-> "RunExternalProcess",
                                          arg |-> pid, entry |-> 0,
                                          proc |-> Len(procs) + 1, signal |-> 0]]
            /\ ret' = NoRet
    /\ UNCHANGED <<containerCache, entries, processCache, containerCacheMutex,
                   processCacheMutex, sups, panicked, waited, lastAdd, returnedPids>>

\* ------------------------------------------------------------------ specifications
\* In the relations below, the position an action starts from stands ahead of
\* the choice of its inputs.

\* Steps that register a started process and carry it to the release of its
\* exit latch (ExecProcess and RunExternalProcess share them).
ProcessRunNext ==
    \/ \E t \in Threads : InsertLock(t)
    \/ \E t \in Threads : Insert(t)
    \/ \E p \in 1..Len(psups) :
           /\ psups[p].pc = "wait"
           /\ \E o \in WaitOutcomes :
                  ProcExit(p, o)
    \/ \E p \in 1..Len(psups) : ProcDone(p)

\* The last step of the supervisor of a container process.
ProcessDeleteNext ==
    \E p \in 1..Len(psups) :
        /\ psups[p].pc = "delete"
        /\ \E ok \in BOOLEAN :
               ProcDelete(p, ok)

\* A handler of the process cache arrives; WaitProcess.
WaitProcessNext ==
    \/ \E t \in Threads : LockProcessCache(t)
    \/ \E t \in Threads :
           /\ thr[t].pc = "plocked"
           /\ \E pid \in Pids :
                  WaitProcessLookup(t, pid)
    \/ \E t \in Threads : WaitProcessReturn(t)

\* Steps of the process cache that carry a process of any kind from its
\* insertion to the delivery of its exit code.
ProcessLifeNext == ProcessRunNext \/ WaitProcessNext

\* The same with the last step of the supervisor of a container process.
ProcessExitNext == ProcessLifeNext \/ ProcessDeleteNext

\* The other handlers that work on the process cache; they arrive by
\* LockProcessCache.
ProcessControlNext ==
    \/ \E t \in Threads :
           /\ thr[t].pc = "plocked"
           /\ \E pid \in Pids, sig \in Signals :
                  SignalProcess(t, pid, sig)
    \/ \E t \in Threads :
           /\ thr[t].pc = "kill"
           /\ \E ok \in BOOLEAN :
                  SignalProcessKill(t, ok)
    \/ \E t \in Threads :
           /\ thr[t].pc = "plocked"
           /\ \E pid \in Pids :
                  ResizeConsole(t, pid)
    \/ \E t \in Threads :
           /\ thr[t].pc = "resize"
           /\ \E ok \in BOOLEAN :
                  ResizeConsoleTty(t, ok)

\* Steps of the process cache and of the process supervisors, which the
\* container handlers and the host-process runner share.
ProcessNext == ProcessExitNext \/ ProcessControlNext

\* A handler of the container cache arrives; CreateContainer, ExecProcess up
\* to its return, and the init supervisors.
ContainerLifeNext ==
    \/ \E t \in Threads : LockContainerCache(t)
    \/ \E t \in Threads :
           /\ thr[t].pc = "locked"
           /\ \E id \in OneId, s \in SettingsSet, f \in CreateFailures :
                  CreateContainer(t, id, s, f)
    \/ \E t \in Threads :
           /\ thr[t].pc = "locked"
           /\ \E id \in OneId, f \in ExecFailures, tty \in BOOLEAN, pid \in Pids :
                  ExecProcess(t, id, f, tty, pid)
    \/ \E t \in Threads : ExecProcessReturn(t)
    \/ \E e \in 1..Len(sups) :
           /\ sups[e].pc = "wait"
           /\ \E o \in WaitOutcomes :
                  SupWait(e, o)
    \/ \E e \in 1..Len(sups) : SupLock(e)
    \/ \E e \in 1..Len(sups) :
           /\ sups[e].pc = "cleanup"
           /\ \E ok \in BOOLEAN :
                  SupCleanup(e, ok)
    \/ \E e \in 1..Len(sups) : SupSetProcessExitCode(e)
    \/ \E e \in 1..Len(sups) : SupProcessDone(e)
    \/ \E e \in 1..Len(sups) : SupSetExitCode(e)
    \/ \E e \in 1..Len(sups) : SupDone(e)
    \/ \E e \in 1..Len(sups) : SupLock2(e)
    \/ \E e \in 1..Len(sups) : SupDelete(e)

\* WaitContainer.
WaitContainerNext ==
    \/ \E t \in Threads :
           /\ thr[t].pc = "locked"
           /\ \E id \in OneId :
                  WaitContainerLookup(t, id)
    \/ \E t \in Threads : WaitContainerReturn(t)

\* Steps that carry a container from its creation to the delivery of its exit
\* code, and of the init supervisors.
ContainerExitNext == ContainerLifeNext \/ WaitContainerNext

\* The other handlers that work on the container cache.
ContainerControlNext ==
    \/ \E t \in Threads :
           /\ thr[t].pc = "locked"
           /\ \E id \in OneId, sig \in Signals, ok \in BOOLEAN :
                  SignalContainer(t, id, sig, ok)
    \/ \E t \in Threads :
           /\ thr[t].pc = "locked"
           /\ \E id \in OneId, ok \in BOOLEAN :
                  ListProcesses(t, id, ok)
    \/ \E t \in Threads :
           /\ thr[t].pc = "locked"
           /\ \E id \in OneId, r \in ModifyRequests :
                  ModifyStep(t, id, r)

\* Steps of the container handlers and of the init supervisors.
ContainerNext == ContainerExitNext \/ ContainerControlNext

\* Steps of the host-process runner and of the relay of a host process.
HostNext ==
    \/ \E t \in Threads :
           /\ thr[t].pc = "idle"
           /\ \E f \in RunFailures, console \in BOOLEAN, pid \in Pids :
                  RunExternalProcess(t, f, console, pid)
    \/ \E p \in 1..Len(psups) : RelayWait(p)

\* Every handler of the core and every supervisor.
Next == ContainerNext \/ ProcessNext \/ HostNext

\* The whole core.
Spec == Init /\ [][Next]_vars

\* The handlers of the core, each named for the methods of gcsCore it runs;
\* the other methods are not called. In these the host runs one container,
\* under the id of OneId; TwoContainerSpec, further down, has it run two.

\* CreateContainer and ExecProcess with the supervisors of the containers and
\* of their processes.
LifeSpec ==
    Init /\ [][ContainerLifeNext \/ ProcessRunNext \/ ProcessDeleteNext]_vars

\* The same with WaitContainer.
WaitSpec ==
    Init /\ [][ContainerExitNext \/ ProcessRunNext \/ ProcessDeleteNext]_vars

\* The same with WaitContainer and WaitProcess.
ProcessWaitSpec == Init /\ [][ContainerExitNext \/ ProcessExitNext]_vars

\* CreateContainer and ExecProcess with SignalContainer, ListProcesses and
\* ModifySettings.
ControlSpec ==
    Init /\ [][\/ ContainerLifeNext \/ ContainerControlNext
               \/ ProcessRunNext \/ ProcessDeleteNext]_vars

\* Every handler but RunExternalProcess: the core serving containers and
\* container processes only.
ContainerSpec == Init /\ [][ContainerNext \/ ProcessNext]_vars

\* RunExternalProcess with the handlers of the process cache: the core
\* serving host processes only; a host process has no runtime process to
\* delete (lines 616-635).
HostSpec == Init /\ [][HostNext \/ ProcessLifeNext \/ ProcessControlNext]_vars

\* CreateContainer, ExecProcess, RunExternalProcess and WaitProcess: the
\* processes of containers and of the host from their start to the delivery
\* of their exit codes.
RegistrySpec ==
    Init /\ [][ContainerLifeNext \/ ProcessExitNext \/ HostNext]_vars

\* A request thread continues the handler of a create or exec request: every
\* step but the arrival of the request (the first Lock of the handler).
CreateExecStep(t) ==
    /\ thr[t].pc \in {"locked", "insert", "inserting", "inserted"}
    /\ \/ \E id \in OneId, st \in SettingsSet, f \in CreateFailures :
              CreateContainer(t, id, st, f)
       \/ \E id \in OneId, f \in ExecFailures, tty \in BOOLEAN, pid \in Pids :
              ExecProcess(t, id, f, tty, pid)
       \/ InsertLock(t)
       \/ Insert(t)
       \/ ExecProcessReturn(t)

\* The same for a create, exec or wait request.
ThreadStep(t) ==
    \/ CreateExecStep(t)
    \/ /\ thr[t].pc \in {"locked", "wait"}
       /\ \/ \E id \in OneId : WaitContainerLookup(t, id)
          \/ WaitContainerReturn(t)

\* The init supervisor of entry e continues after container.Wait() returned.
SupStep(e) ==
    /\ e \in 1..Len(sups)
    /\ sups[e].pc \notin {"none", "wait", "finished"}
    /\ \/ SupLock(e)
       \/ \E ok \in BOOLEAN : SupCleanup(e, ok)
       \/ SupSetProcessExitCode(e)
       \/ SupProcessDone(e)
       \/ SupSetExitCode(e)
       \/ SupDone(e)
       \/ SupLock2(e)
       \/ SupDelete(e)

\* A fair scheduler: a goroutine that can run does run, and a goroutine
\* blocked in Lock gets the mutex if it is free again and again (sync.Mutex
\* hands a starving waiter the lock).

\* CreateContainer and ExecProcess with the supervisors under a fair scheduler.
FairLifeSpec ==
    /\ LifeSpec
    /\ \A t \in Threads : WF_vars(CreateExecStep(t))
    /\ \A e \in 1..MaxEntries : SF_vars(SupStep(e))

\* The same with WaitContainer.
ExitSpec ==
    /\ WaitSpec
    /\ \A t \in Threads : WF_vars(ThreadStep(t))
    /\ \A e \in 1..MaxEntries : SF_vars(SupStep(e))

\* Two containers side by side. The host calls CreateContainer and
\* ExecProcess on both ids, MaxCallsOnTwo times in all; the settings it sends
\* map no disk, no directory and no adapter. The init supervisor of each
\* container runs from container.Wait() to its end, and a started process is
\* registered; the supervisors of the later processes of a container are
\* still in p.Wait().
PlainSettings ==
    {s \in SettingsSet : /\ s.MappedVirtualDisks = <<>>
                         /\ s.MappedDirectories = <<>>
                         /\ s.NetworkAdapters = <<>>}

TwoContainerNext ==
    \/ \E t \in Threads : LockContainerCacheOf(t, MaxCallsOnTwo)
    \/ \E t \in Threads :
           /\ thr[t].pc = "locked"
           /\ \E id \in Ids, s \in PlainSettings, f \in CreateFailures :
                  CreateContainer(t, id, s, f)
    \/ \E t \in Threads :
           /\ thr[t].pc = "locked"
           /\ \E id \in Ids, f \in ExecFailures, tty \in BOOLEAN, pid \in Pids :
                  ExecProcess(t, id, f, tty, pid)
    \/ \E t \in Threads : InsertLock(t)
    \/ \E t \in Threads : Insert(t)
    \/ \E t \in Threads : ExecProcessReturn(t)
    \/ \E e \in 1..Len(sups) :
           /\ sups[e].pc = "wait"
           /\ \E o \in WaitOutcomes :
                  SupWait(e, o)
    \/ \E e \in 1..Len(sups) : SupLock(e)
    \/ \E e \in 1..Len(sups) :
           /\ sups[e].pc = "cleanup"
           /\ \E ok \in BOOLEAN :
                  SupCleanup(e, ok)
    \/ \E e \in 1..Len(sups) : SupSetProcessExitCode(e)
    \/ \E e \in 1..Len(sups) : SupProcessDone(e)
    \/ \E e \in 1..Len(sups) : SupSetExitCode(e)
    \/ \E e \in 1..Len(sups) : SupDone(e)
    \/ \E e \in 1..Len(sups) : SupLock2(e)
    \/ \E e \in 1..Len(sups) : SupDelete(e)

\* A request thread continues the handler of a create or exec request on
\* either container.
TwoContainerStep(t) ==
    /\ thr[t].pc \in {"locked", "insert", "inserting", "inserted"}
    /\ \/ \E id \in Ids, st \in PlainSettings, f \in CreateFailures :
              CreateContainer(t, id, st, f)
       \/ \E id \in Ids, f \in ExecFailures, tty \in BOOLEAN, pid \in Pids :
              ExecProcess(t, id, f, tty, pid)
       \/ InsertLock(t)
       \/ Insert(t)
       \/ ExecProcessReturn(t)

\* The two containers under the fair scheduler.
TwoContainerSpec ==
    /\ Init /\ [][TwoContainerNext]_vars
    /\ \A t \in Threads : WF_vars(TwoContainerStep(t))
    /\ \A e \in 1..MaxEntries : SF_vars(SupStep(e))

\* ------------------------------------------------------------------ properties
\* The init supervisor of entry e has released the container's exit latch.
SupReleased(e) == sups[e].pc \in {"lock2", "delete", "finished"}

\* C1: a WaitContainer call that found the entry of a container with an init
\* supervisor returns only after the supervisor released the container's exit
\* latch, and returns the exit code the supervisor stored; all the calls that
\* returned for one entry returned one value.
C1_WaitContainerReturnsStoredCode ==
    /\ (ret.op = "WaitContainer" /\ ret.err = "nil" /\ sups[ret.entry].pc # "none") =>
           /\ SupReleased(ret.entry)
           /\ ret.val = sups[ret.entry].code
    /\ \A i, j \in 1..Len(waited) :
           (waited[i].entry = waited[j].entry /\ sups[waited[i].entry].pc # "none")
               => waited[i].val = waited[j].val

\* A WaitContainer returns the exit code 0 of an exited init process while
\* another caller is still blocked on the same entry.
C1_Witness ==
    /\ ret.op = "WaitContainer" /\ ret.err = "nil" /\ ret.val = 0
    /\ SupReleased(ret.entry)
    /\ \E t \in Threads : /\ thr[t].pc = "wait" /\ thr[t].op = "WaitContainer"
                          /\ thr[t].entry = ret.entry

\* C2: an entry that is no longer the registry's entry for its id has its exit
\* latch released and holds the supervisor's exit code, and a WaitContainer
\* caller that holds such an entry returns that code without an error.
C2_RemovalAfterLatchRelease ==
    /\ \A e \in 1..Len(entries) :
           containerCache[entries[e].ID] # e =>
               /\ sups[e].pc = "finished"
               /\ entries[e].exitWg = 0
               /\ entries[e].exitCode = sups[e].code
    /\ (ret.op = "WaitContainer" /\ ret.entry # 0
            /\ containerCache[entries[ret.entry].ID] # ret.entry) =>
           /\ ret.err = "nil"
           /\ ret.val = sups[ret.entry].code

\* A WaitContainer caller returns the exit code 0 from an entry the supervisor
\* has already removed from the registry.
C2_Witness ==
    /\ ret.op = "WaitContainer" /\ ret.err = "nil" /\ ret.val = 0
    /\ sups[ret.entry].pc = "finished"
    /\ containerCache[entries[ret.entry].ID] = 0

\* C3 as stated: once a WaitContainer(id) has returned the exit code of a
\* container whose init process exited, every WaitContainer(id) that returns
\* succeeds with that same code.
C3_SecondWaitNeverFails ==
    ret.op = "WaitContainer" =>
        \A i \in 1..Len(waited) :
            (entries[waited[i].entry].ID = ret.arg /\ sups[waited[i].entry].pc # "none")
                => (ret.err = "nil" /\ ret.val = waited[i].val)

\* C3, amended: the WaitContainer calls that return for one entry all return
\* the same code; a WaitContainer fails only with ContainerDoesNotExist and
\* only when the id is not in the registry, and when it fails after an earlier
\* call on that id returned, the init supervisor of the earlier entry has
\* removed that entry.
C3_RepeatedWait ==
    /\ \A i, j \in 1..Len(waited) :
           waited[i].entry = waited[j].entry => waited[i].val = waited[j].val
    /\ (ret.op = "WaitContainer" /\ ret.err # "nil") =>
           /\ ret.err = "ContainerDoesNotExist"
           /\ containerCache[ret.arg] = 0
           /\ \A i \in 1..Len(waited) :
                  (entries[waited[i].entry].ID = ret.arg
                       /\ sups[waited[i].entry].pc # "none")
                      => sups[waited[i].entry].pc = "finished"

\* One thread has called WaitContainer twice on the entry of an exited
\* container and got the exit code 0 both times.
C3_Witness ==
    \E i, j \in 1..Len(waited) :
        /\ i < j
        /\ waited[i].by = waited[j].by
        /\ waited[i].entry = waited[j].entry
        /\ sups[waited[i].entry].pc # "none"
        /\ waited[i].val = 0 /\ waited[j].val = 0

\* container.Wait() has returned in the init supervisor of entry e.
SupWaitReturned(e) == e <= Len(sups) /\ sups[e].pc \notin {"none", "wait"}

\* The init supervisor of entry e has released the exit latch of the init
\* process (line 424) and the exit latch of the container (line 428).
BothLatchesReleased(e) ==
    /\ SupWaitReturned(e)
    /\ entries[e].exitWg = 0
    /\ procs[sups[e].proc].exitWg = 0

\* C4 as stated: under a fair scheduler, once container.Wait() has returned in
\* the init supervisor of an entry, with an exit state or with an error and
\* whatever cleanupContainer reports, the supervisor eventually has released
\* the init process's exit latch and the container's exit latch.
C4_SupervisorReleasesBothLatches ==
    \A e \in 1..MaxEntries :
        SupWaitReturned(e) ~> BothLatchesReleased(e)

\* C4, as far as the code goes: the same as long as the process lives. A
\* supervisor past the return of Wait stays past it, and again and again
\* every supervisor past the return of Wait is past the release of both
\* latches, or the process has died of the nil container handle of line 446
\* in an ExecProcess on another container.
C4_ReleasesUnlessProcessDies ==
    /\ [][\A e \in 1..MaxEntries : SupWaitReturned(e) => SupWaitReturned(e)']_vars
    /\ \A e \in 1..MaxEntries :
           []<>(SupWaitReturned(e) => (BothLatchesReleased(e) \/ panicked))

\* A supervisor whose container.Wait() returned an error has released both
\* latches.
C4_Witness ==
    \E e \in 1..Len(sups) :
        /\ sups[e].err
        /\ SupReleased(e)
        /\ entries[e].exitWg = 0
        /\ procs[sups[e].proc].exitWg = 0

\* C5 as stated: a container entry's exit latch is released at most once, and
\* when it is released the init supervisor has assigned the entry's exitCode.
C5_ReleasedOnlyAfterAssignment ==
    \A e \in 1..Len(entries) :
        /\ entries[e].exitWg \in {0, 1}
        /\ entries[e].exitWg = 0 =>
               (SupReleased(e) /\ entries[e].exitCode = sups[e].code)

\* C5, amended: a container entry's exit latch is released at most once; it is
\* released either by the init supervisor, after the supervisor assigned
\* exitCode, or by an ExecProcess that failed before it started a supervisor,
\* with exitCode still the initial -1 that no one assigned.
C5_ReleasedOnce ==
    \A e \in 1..Len(entries) :
        /\ entries[e].exitWg \in {0, 1}
        /\ entries[e].exitWg = 0 =>
               \/ SupReleased(e) /\ entries[e].exitCode = sups[e].code
               \/ /\ sups[e].pc = "none"
                  /\ entries[e].hasRunInitProcess
                  /\ entries[e].exitCode = InitialExitCode
        /\ (entries[e].exitWg = 1 /\ sups[e].pc # "none") => ~SupReleased(e)

\* An ExecProcess has failed in configureAdapterInNamespace and released the
\* latch of an entry that has no supervisor.
C5_Witness ==
    \E e \in 1..Len(entries) :
        /\ entries[e].exitWg = 0
        /\ sups[e].pc = "none"
        /\ entries[e].container # 0

\* C6: when the init supervisor has released the container's exit latch, the
\* init process's exit latch is released already and the process entry holds
\* the exit code the container entry holds.
C6_ProcessLatchFirst ==
    \A e \in 1..Len(sups) :
        /\ SupReleased(e) =>
               /\ procs[sups[e].proc].exitWg = 0
               /\ procs[sups[e].proc].exitCode = sups[e].code
               /\ procs[sups[e].proc].exitCode = entries[e].exitCode
        /\ (sups[e].pc # "none" /\ procs[sups[e].proc].exitWg = 1) =>
               entries[e].exitWg = 1

\* The process latch of an init process is released while the container's
\* latch is still held.
C6_Witness ==
    \E e \in 1..Len(sups) :
        /\ sups[e].pc = "setExitCode"
        /\ procs[sups[e].proc].exitWg = 0
        /\ procs[sups[e].proc].exitCode = 0
        /\ entries[e].exitWg = 1

\* C7: the supervisor of a container process other than init records the exit
\* code on the process entry before it releases the process's exit latch, and
\* releases the latch before it calls p.Delete(); a WaitProcess that returns
\* from such an entry returns the recorded code, also after p.Delete().
C7_ChildCodeOutlivesDelete ==
    /\ \A p \in 1..Len(psups) :
           psups[p].kind = "child" =>
               /\ psups[p].pc = "wait" => procs[p].exitWg = 1
               /\ psups[p].pc = "done" =>
                      (procs[p].exitWg = 1 /\ procs[p].exitCode = psups[p].code)
               /\ psups[p].pc \in {"delete", "finished"} =>
                      (procs[p].exitWg = 0 /\ procs[p].exitCode = psups[p].code)
    /\ (ret.op = "WaitProcess" /\ ret.err = "nil" /\ psups[ret.entry].kind = "child") =>
           /\ psups[ret.entry].pc \in {"delete", "finished"}
           /\ ret.val = psups[ret.entry].code

\* A WaitProcess returns the exit code 0 of a container process whose
\* supervisor has called p.Delete().
C7_Witness ==
    /\ ret.op = "WaitProcess" /\ ret.err = "nil" /\ ret.val = 0
    /\ psups[ret.entry].kind = "child"
    /\ psups[ret.entry].pc = "finished"

\* C8: a CreateContainer on an id that is in the registry returns
\* ContainerExists and leaves the registry and every entry as they were, so
\* the entry the id names is replaced by no later CreateContainer.
C8_CreateOnPresentIdFails ==
    [][\A t \in Threads :
          (/\ thr[t].pc = "locked" /\ thr'[t].pc = "idle"
           /\ ret'.op = "CreateContainer"
           /\ containerCache[ret'.arg] # 0) =>
              /\ ret'.err = "ContainerExists"
              /\ containerCache' = containerCache
              /\ entries' = entries
              /\ sups' = sups]_vars

\* A CreateContainer has returned ContainerExists while the entry that an
\* earlier CreateContainer inserted is in the registry.
C8_Witness ==
    /\ ret.op = "CreateContainer" /\ ret.err = "ContainerExists"
    /\ containerCache[ret.arg] # 0

\* C9: a CreateContainer that returns an error, whichever step failed, leaves
\* the registry and the heap of inserted entries as they were.
C9_FailedCreateInsertsNothing ==
    [][(ret'.op = "CreateContainer" /\ ret'.err # "nil") =>
           /\ containerCache' = containerCache
           /\ entries' = entries
           /\ sups' = sups]_vars

\* A CreateContainer has failed in its last step, the MkdirAll of line 357,
\* and the id is not in the registry.
C9_Witness ==
    /\ ret.op = "CreateContainer" /\ ret.err = "OSFailure"
    /\ containerCache[ret.arg] = 0

\* What a handler that missed its lookup leaves alone.
Untouched ==
    /\ UNCHANGED <<containerCache, entries, processCache, procs, sups, psups,
                   panicked, waited>>
    /\ effects' = <<>>

\* C10: a handler other than CreateContainer that looks up an id that is not
\* in the container registry returns ContainerDoesNotExist, a handler that
\* looks up a pid that is not in the process registry returns
\* ProcessDoesNotExist, and in both cases the registries, the entries, the
\* supervisors and the collaborators are untouched; a handler goes on past its
\* lookup only with the entry the registry holds.
C10_AbsentTargetFails ==
    [][\A t \in Threads :
          /\ (/\ thr[t].pc = "locked" /\ thr'[t].pc = "idle"
              /\ ret'.op \notin {"none", "CreateContainer"}
              /\ containerCache[ret'.arg] = 0) =>
                 /\ ret'.op \in {"ExecProcess", "SignalContainer", "ListProcesses",
                                 "ModifySettings", "WaitContainer"}
                 /\ ret'.err = "ContainerDoesNotExist"
                 /\ Untouched
          /\ (thr[t].pc = "locked" /\ thr'[t].pc \in {"wait", "insert"}) =>
                 /\ thr'[t].entry # 0
                 /\ containerCache[entries[thr'[t].entry].ID] = thr'[t].entry
          /\ (/\ thr[t].pc = "plocked" /\ thr'[t].pc = "idle"
              /\ ret'.arg \in Pids /\ processCache[ret'.arg] = 0) =>
                 /\ ret'.op \in {"SignalProcess", "ResizeConsole", "WaitProcess"}
                 /\ ret'.err = "ProcessDoesNotExist"
                 /\ Untouched
          /\ (thr[t].pc = "plocked" /\ thr'[t].pc \in {"wait", "kill", "resize"}) =>
                 /\ thr'[t].proc # 0
                 /\ processCache[thr'[t].arg] = thr'[t].proc]_vars

\* An ExecProcess has returned ContainerDoesNotExist for an id whose container
\* has exited and has been removed, while the process registry still holds the
\* init process.
C10_Witness ==
    /\ ret.op = "ExecProcess" /\ ret.err = "ContainerDoesNotExist"
    /\ containerCache[ret.arg] = 0
    /\ \E pid \in Pids : processCache[pid] # 0

\* A first ExecProcess of entry e has failed before it started the init
\* supervisor: in writeConfigFile, in Rtime.CreateContainer or in
\* configureAdapterInNamespace.
InitFailed(e) == entries[e].hasRunInitProcess /\ sups[e].pc = "none"

\* C11: when the first ExecProcess of a container has failed in the runtime's
\* create call or in the configuration of an adapter, the container's exit
\* latch is released when ExecProcess has returned, and every WaitContainer
\* blocked on that entry eventually returns.
C11_BlockedWaitersReturn ==
    /\ [](\A e \in 1..Len(entries) : InitFailed(e) => entries[e].exitWg = 0)
    /\ \A t \in Threads :
           (/\ thr[t].pc = "wait" /\ thr[t].op = "WaitContainer"
            /\ InitFailed(thr[t].entry))
               ~> (thr[t].pc = "idle")

\* Thread t is blocked in WaitContainer on an entry whose first ExecProcess
\* failed before it started a supervisor.
BlockedOnFailedInit(t) ==
    /\ thr[t].pc = "wait" /\ thr[t].op = "WaitContainer"
    /\ InitFailed(thr[t].entry)

\* What holds of C11: the latch of an entry whose first ExecProcess failed
\* before it started a supervisor is released, and a WaitContainer blocked on
\* the entry returns unless the process dies first: a blocked call leaves
\* the wait only by returning, and again and again no call is blocked unless
\* the process has died.
C11_ReturnUnlessProcessDies ==
    /\ [](\A e \in 1..Len(entries) : InitFailed(e) => entries[e].exitWg = 0)
    /\ [][\A t \in Threads :
             BlockedOnFailedInit(t) =>
                 (BlockedOnFailedInit(t)' \/ thr'[t].pc = "idle")]_vars
    /\ \A t \in Threads : []<>(~BlockedOnFailedInit(t) \/ panicked)

\* ExecProcess has just failed in Rtime.CreateContainer and released the latch
\* of an entry on which a WaitContainer is blocked.
C11_Witness ==
    /\ ret.op = "ExecProcess" /\ ret.err = "RuntimeFailure"
    /\ effects = <<"writeConfigFile">>
    /\ entries[ret.entry].exitWg = 0
    /\ \E t \in Threads : /\ thr[t].pc = "wait" /\ thr[t].op = "WaitContainer"
                          /\ thr[t].entry = ret.entry

\* ------------------------------------------------------------------ C12
\* C12: adding a disk whose Lun is in the entry's disk map (a directory whose
\* Port is in its directory map) fails with the duplicate-key error and
\* leaves the entry as it was, called directly or through
\* ModifySettings(Add) once the mount succeeded; and a descriptor stored under
\* a key stays the one stored there for as long as the key is in the map.
C12_DuplicateKeyRejected ==
    /\ [](\A e \in 1..Len(entries) :
            /\ \A disk \in DiskSet :
                   disk.Lun \in DOMAIN entries[e].MappedVirtualDisks =>
                     /\ AddMappedVirtualDisk(entries[e], disk) =
                            [err |-> "DuplicateLun", entry |-> entries[e]]
                     /\ LET r == ModifySettingsSteps(entries[e], "Add",
                                     "MappedVirtualDisk", TRUE, disk, DirA, TRUE)
                        IN  r.err = "DuplicateLun" /\ r.entry = entries[e]
            /\ \A dir \in DirSet :
                   dir.Port \in DOMAIN entries[e].MappedDirectories =>
                     /\ AddMappedDirectory(entries[e], dir) =
                            [err |-> "DuplicatePort", entry |-> entries[e]]
                     /\ LET r == ModifySettingsSteps(entries[e], "Add",
                                     "MappedDirectory", TRUE, DiskA, dir, TRUE)
                        IN  r.err = "DuplicatePort" /\ r.entry = entries[e])
    /\ [][/\ \A e \in 1..Len(entries) :
               /\ \A l \in DOMAIN entries[e].MappedVirtualDisks
                            \cap DOMAIN entries'[e].MappedVirtualDisks :
                      entries'[e].MappedVirtualDisks[l] =
                          entries[e].MappedVirtualDisks[l]
               /\ \A p \in DOMAIN entries[e].MappedDirectories
                            \cap DOMAIN entries'[e].MappedDirectories :
                      entries'[e].MappedDirectories[p] =
                          entries[e].MappedDirectories[p]
           /\ (ret'.op = "ModifySettings"
                  /\ ret'.err \in {"DuplicateLun", "DuplicatePort"})
                 => entries' = entries]_vars

\* A ModifySettings(Add, MappedVirtualDisk) mounted the disk and was refused
\* because Lun 0 already holds DiskA, next to a disk under Lun 1.
C12_Witness ==
    /\ ret.op = "ModifySettings"
    /\ ret.err = "DuplicateLun"
    /\ effects = <<"mount">>
    /\ entries[ret.entry].MappedVirtualDisks = (0 :> DiskA) @@ (1 :> DiskC)

\* ------------------------------------------------------------------ C13
\* Request r removes a descriptor whose key is not in the map of entry e.
RemovesAbsent(e, r) ==
    /\ r.castOk
    /\ r.requestType = "Remove"
    /\ \/ /\ r.resourceType = "MappedVirtualDisk"
          /\ r.disk.Lun \notin DOMAIN e.MappedVirtualDisks
       \/ /\ r.resourceType = "MappedDirectory"
          /\ r.dir.Port \notin DOMAIN e.MappedDirectories

\* C13 as stated: every ModifySettings(Remove) of a disk whose Lun (directory
\* whose Port) is not in the entry's map returns success and leaves the entry
\* unchanged.
C13_RemoveAbsentSucceeds ==
    [][ret'.op = "ModifySettings" =>
        \A t \in Threads, id \in Ids, r \in ModifyRequests :
          (/\ getContainer(id) # 0
           /\ RemovesAbsent(entries[getContainer(id)], r)
           /\ ModifyStep(t, id, r)) =>
              /\ ret'.err = "nil"
              /\ entries' = entries]_vars

\* C13: a ModifySettings(Remove) of a disk whose Lun (directory whose Port) is
\* not in the entry's map leaves every entry unchanged; it returns success
\* when the unmount that precedes the removal succeeds, and the storage error
\* of that unmount otherwise.
C13_RemoveAbsentIsNoOp ==
    [][ret'.op = "ModifySettings" =>
        \A t \in Threads, id \in Ids, r \in ModifyRequests :
          (/\ getContainer(id) # 0
           /\ RemovesAbsent(entries[getContainer(id)], r)
           /\ ModifyStep(t, id, r)) =>
              /\ entries' = entries
              /\ containerCache' = containerCache
              /\ r.ok => (ret'.err = "nil" /\ effects' = <<"unmount">>)
              /\ ~r.ok => (ret'.err = "StorageFailure" /\ effects' = <<>>)]_vars

\* The second request of the host, a Remove, has returned success on a
\* container created with DiskA and DirA that still has both: what it removed
\* was in neither map.
C13_Witness ==
    /\ calls = 2
    /\ ret.op = "ModifySettings" /\ ret.err = "nil"
    /\ effects = <<"unmount">>
    /\ entries[ret.entry].MappedVirtualDisks = (0 :> DiskA)
    /\ entries[ret.entry].MappedDirectories = (0 :> DirA)

\* ------------------------------------------------------------------ C14
\* C14: for a reachable entry and a disk whose Lun is not in its disk map, a
\* ModifySettings(Add) of the disk whose mount succeeds and then a
\* ModifySettings(Remove) of it whose unmount succeeds both return success
\* and give back the entry as it was; each of the two steps changes nothing
\* but the disk map of that entry, and after the Remove the disk map is the
\* one the Add found.
C14_AddThenRemoveRestores ==
    /\ [](\A e \in 1..Len(entries) : \A disk \in DiskSet :
            disk.Lun \notin DOMAIN entries[e].MappedVirtualDisks =>
              LET a == ModifySettingsSteps(entries[e], "Add", "MappedVirtualDisk",
                                           TRUE, disk, DirA, TRUE)
                  b == ModifySettingsSteps(a.entry, "Remove", "MappedVirtualDisk",
                                           TRUE, disk, DirA, TRUE)
              IN  /\ a.err = "nil" /\ b.err = "nil"
                  /\ a.entry.MappedVirtualDisks[disk.Lun] = disk
                  /\ b.entry = entries[e])
    /\ [][(lastAdd'.entry # 0 /\ lastAdd' # lastAdd) =>
            LET e == lastAdd'.entry
            IN  /\ ret'.op = "ModifySettings" /\ ret'.err = "nil"
                /\ entries' = [entries EXCEPT ![e].MappedVirtualDisks =
                                  entries'[e].MappedVirtualDisks]
                /\ lastAdd'.removed =>
                       entries'[e].MappedVirtualDisks = lastAdd'.before
                /\ ~lastAdd'.removed =>
                       /\ lastAdd'.before = entries[e].MappedVirtualDisks
                       /\ lastAdd'.disk.Lun \notin DOMAIN lastAdd'.before
                       /\ entries'[e].MappedVirtualDisks[lastAdd'.disk.Lun] =
                              lastAdd'.disk]_vars

\* A ModifySettings has added DiskC to a disk map that held DiskA, and the
\* ModifySettings that followed has removed it with success: the map holds
\* DiskA alone, as before.
C14_Witness ==
    /\ lastAdd.entry # 0
    /\ lastAdd.removed
    /\ lastAdd.disk = DiskC
    /\ lastAdd.before = (0 :> DiskA)
    /\ ret.op = "ModifySettings" /\ ret.err = "nil"
    /\ effects = <<"unmount">>
    /\ entries[lastAdd.entry].MappedVirtualDisks = (0 :> DiskA)

\* ------------------------------------------------------------------ C15
\* C15: no step removes a pid from the process registry; the registry changes
\* only when ExecProcess or RunExternalProcess stores its new entry under the
\* pid it then returns, replacing the entry an earlier process left under that
\* pid; a pid returned by ExecProcess or RunExternalProcess is in the
\* registry, WaitProcess fails only for a pid that is not in the registry, and
\* so no WaitProcess on a pid that was returned fails with
\* ProcessDoesNotExist.
C15_PidsNeverRemoved ==
    /\ [][/\ \A pid \in Pids : processCache[pid] # 0 => processCache'[pid] # 0
          /\ processCache' # processCache =>
                \E t \in Threads :
                    /\ thr[t].pc = "inserting"
                    /\ thr[t].op \in {"ExecProcess", "RunExternalProcess"}
                    /\ processCache' =
                           [processCache EXCEPT ![thr[t].arg] = thr[t].proc]
                    /\ thr[t].op = "RunExternalProcess" =>
                           (ret'.err = "nil" /\ ret'.val = thr[t].arg)
                    /\ thr[t].op = "ExecProcess" =>
                           (thr'[t].pc = "inserted" /\ thr'[t].arg = thr[t].arg)
          /\ \A t \in Threads :
                (thr[t].pc = "inserted" /\ thr'[t] # thr[t]) =>
                    (ret'.op = "ExecProcess" /\ ret'.err = "nil"
                       /\ ret'.val = thr[t].arg)
          /\ (ret'.op \in {"ExecProcess", "RunExternalProcess"} /\ ret'.err = "nil")
                => processCache'[ret'.val] # 0
          /\ (ret'.op = "WaitProcess" /\ ret'.err = "ProcessDoesNotExist")
                => processCache[ret'.arg] = 0]_vars
    /\ [](/\ (ret.op \in {"ExecProcess", "RunExternalProcess"} /\ ret.err = "nil")
                => ret.val \in returnedPids
          /\ (ret.op = "WaitProcess" /\ ret.arg \in returnedPids)
                => ret.err # "ProcessDoesNotExist")

\* Both processes got the same pid, one from ExecProcess and one from
\* RunExternalProcess; the registry holds the second under that pid, and a
\* WaitProcess on the pid has returned its exit code.
C15_Witness ==
    /\ Len(procs) = 2
    /\ psups[1].pid = psups[2].pid
    /\ psups[1].kind = "init" /\ psups[2].kind = "ext"
    /\ processCache[psups[2].pid] = 2
    /\ ret.op = "WaitProcess" /\ ret.err = "nil"
    /\ ret.arg = psups[2].pid /\ ret.entry = 2

\* ------------------------------------------------------------------ C16
\* The supervisor of process entry p: the init supervisor of its container for
\* an init process, its own supervisor otherwise.
ProcSup(p) ==
    IF psups[p].kind = "init"
    THEN sups[CHOOSE e \in 1..Len(sups) : sups[e].proc = p]
    ELSE psups[p]

\* C16: a WaitContainer that returns -1 waited on an entry whose init process
\* never got a supervisor (ExecProcess failed before it) or whose
\* container.Wait() returned an error; a WaitProcess that returns -1 waited on
\* a process whose wait returned an error; and when the wait handed back an
\* exit state, every WaitContainer and WaitProcess that returns for that entry
\* returns the code of that state.
C16_MinusOneOnlyWithoutExitState ==
    /\ (ret.op = "WaitContainer" /\ ret.err = "nil") =>
           LET s == sups[ret.entry]
           IN  /\ s.pc # "wait"
               /\ ret.val = InitialExitCode => (s.pc = "none" \/ s.err)
               /\ (s.pc # "none" /\ ~s.err) =>
                      (ret.val = s.code /\ ret.val \in ExitCodes)
    /\ (ret.op = "WaitProcess" /\ ret.err = "nil") =>
           LET s == ProcSup(ret.entry)
           IN  /\ s.pc # "wait"
               /\ ret.val = InitialExitCode => s.err
               /\ ~s.err => (ret.val = s.code /\ ret.val \in ExitCodes)
    /\ \A i \in 1..Len(waited) :
           LET s == sups[waited[i].entry]
           IN  (s.pc # "none" /\ ~s.err) => waited[i].val = s.code

\* container.Wait() returned an error: a WaitContainer on the entry has
\* returned -1, and now a WaitProcess on its init process returns -1.
C16_Witness ==
    /\ ret.op = "WaitProcess" /\ ret.err = "nil" /\ ret.val = InitialExitCode
    /\ psups[ret.entry].kind = "init"
    /\ ProcSup(ret.entry).err
    /\ \E i \in 1..Len(waited) :
           /\ sups[waited[i].entry].proc = ret.entry
           /\ waited[i].val = InitialExitCode

\* ------------------------------------------------------------------ C17
\* C17: a SignalContainer on a registered container whose entry has no runtime
\* handle returns success and calls no collaborator; one whose entry has the
\* handle calls container.Kill once, with the signal it was given, and
\* returns what Kill returned; in both cases the registry and the entries are
\* unchanged.
C17_SignalContainer ==
    [][ret'.op = "SignalContainer" =>
        \A t \in Threads, id \in Ids, sig \in Signals, killOk \in BOOLEAN :
          (getContainer(id) # 0 /\ SignalContainer(t, id, sig, killOk)) =>
             /\ entries' = entries
             /\ containerCache' = containerCache
             /\ sups' = sups
             /\ entries[getContainer(id)].container = 0 =>
                    (ret'.err = "nil" /\ effects' = <<>>)
             /\ entries[getContainer(id)].container # 0 =>
                    /\ effects' = <<"container.Kill", sig>>
                    /\ ret'.err = IF killOk THEN "nil" ELSE "RuntimeFailure"]_vars

\* A SignalContainer has returned success without a call on a container that
\* is registered and has no runtime handle.
C17_Witness ==
    /\ ret.op = "SignalContainer" /\ ret.err = "nil"
    /\ effects = <<>>
    /\ containerCache[ret.arg] = ret.entry
    /\ ret.entry # 0
    /\ entries[ret.entry].container = 0

\* ------------------------------------------------------------------ C18
\* C18: a SignalProcess on a registered pid calls OS.Kill once on that pid,
\* with SIGKILL when the requested signal is 0 and with the requested signal
\* otherwise, and returns success exactly when Kill succeeded; no
\* SignalProcess changes the process registry or a process entry.
C18_SignalProcess ==
    [][/\ (\E u \in Threads : thr[u].pc = "plocked" /\ thr'[u].pc = "kill") =>
            \A t \in Threads, pid \in Pids, sig \in Signals :
               (processCache[pid] # 0 /\ SignalProcess(t, pid, sig)) =>
                  /\ thr'[t].arg = pid /\ thr'[t].signal = sig
                  /\ effects' = <<>>
                  /\ processCache' = processCache /\ procs' = procs /\ psups' = psups
       /\ ret'.op = "SignalProcess" =>
            /\ processCache' = processCache
            /\ procs' = procs
            /\ psups' = psups
            /\ \A t \in Threads, killOk \in BOOLEAN :
                 SignalProcessKill(t, killOk) =>
                    /\ thr[t].signal = 0 => effects' = <<"OS.Kill", thr[t].arg, SIGKILL>>
                    /\ thr[t].signal # 0 =>
                           effects' = <<"OS.Kill", thr[t].arg, thr[t].signal>>
                    /\ ret'.err = IF killOk THEN "nil" ELSE "OSFailure"
       /\ (effects' # <<>> /\ effects'[1] = "OS.Kill") =>
            \E t \in Threads : thr[t].pc = "kill" /\ thr'[t].pc = "idle"]_vars

\* A SignalProcess on a registered pid has delivered SIGKILL, which is not
\* among the signals the host requests by number: the request carried 0.
C18_Witness ==
    /\ ret.op = "SignalProcess" /\ ret.err = "nil"
    /\ SIGKILL \notin Signals
    /\ effects = <<"OS.Kill", ret.arg, SIGKILL>>
    /\ processCache[ret.arg] = ret.entry
    /\ ret.entry # 0

\* ------------------------------------------------------------------ C19
\* Request r is none of Add and Remove of a MappedVirtualDisk or a
\* MappedDirectory.
Unsupported(r) ==
    ~(/\ r.requestType \in {"Add", "Remove"}
      /\ r.resourceType \in {"MappedVirtualDisk", "MappedDirectory"})

\* C19 as stated: every ModifySettings on a registered container with a
\* request other than Add or Remove of a disk or a directory fails with the
\* unsupported-request error, mounts and unmounts nothing and leaves the
\* entries unchanged.
C19_OthersAreUnsupported ==
    [][ret'.op = "ModifySettings" =>
        \A t \in Threads, id \in Ids, r \in ModifyRequests :
          (getContainer(id) # 0 /\ Unsupported(r) /\ ModifyStep(t, id, r)) =>
             /\ ret'.err = "UnsupportedRequest"
             /\ effects' = <<>>
             /\ entries' = entries]_vars

\* C19: a ModifySettings on a registered container with a request other than
\* Add or Remove of a disk or a directory fails, mounts and unmounts nothing
\* and leaves the entries and the registry unchanged; it fails with the
\* unsupported-request error when the request's settings have the expected
\* type, and with the invalid-arguments error of the settings cast otherwise.
C19_OthersFail ==
    [][ret'.op = "ModifySettings" =>
        \A t \in Threads, id \in Ids, r \in ModifyRequests :
          (getContainer(id) # 0 /\ Unsupported(r) /\ ModifyStep(t, id, r)) =>
             /\ r.castOk => ret'.err = "UnsupportedRequest"
             /\ ~r.castOk => ret'.err = "InvalidArguments"
             /\ effects' = <<>>
             /\ entries' = entries
             /\ containerCache' = containerCache]_vars

\* A ModifySettings on a registered container that has a disk and a directory
\* has failed with the unsupported-request error without a call.
C19_Witness ==
    /\ ret.op = "ModifySettings" /\ ret.err = "UnsupportedRequest"
    /\ effects = <<>>
    /\ containerCache[ret.arg] = ret.entry
    /\ entries[ret.entry].MappedVirtualDisks = (0 :> DiskA)
    /\ entries[ret.entry].MappedDirectories = (0 :> DirA)

\* ------------------------------------------------------------------ C20
\* C20: a process that RunExternalProcess starts has a TTY relay exactly when
\* EmulateConsole is set; a ResizeConsole on a registered pid whose entry has
\* no relay fails with the not-a-terminal error and calls nothing; one whose
\* entry has a relay calls the relay's ResizeConsole and returns its result;
\* the relay is called by no other ResizeConsole, and the registry and the
\* entries are unchanged.
C20_ResizeNeedsRelay ==
    [][/\ \A t \in Threads, pid \in Pids, console \in BOOLEAN :
             RunExternalProcess(t, "none", console, pid) =>
                 procs'[Len(procs')].Tty = console
       /\ \A t \in Threads :
             (thr[t].pc = "plocked" /\ thr'[t].pc = "resize") =>
                 /\ thr'[t].proc # 0
                 /\ thr'[t].proc = processCache[thr'[t].arg]
                 /\ effects' = <<>>
                 /\ processCache' = processCache /\ procs' = procs
       /\ ret'.op = "ResizeConsole" =>
            /\ processCache' = processCache /\ procs' = procs
            /\ effects' # <<>> =>
                  \E t \in Threads : /\ thr[t].pc = "resize" /\ thr'[t].pc = "idle"
                                     /\ procs[thr[t].proc].Tty
            /\ \A t \in Threads, ok \in BOOLEAN :
                 ResizeConsoleTty(t, ok) =>
                    /\ ~procs[thr[t].proc].Tty =>
                           (ret'.err = "NotATerminal" /\ effects' = <<>>)
                    /\ procs[thr[t].proc].Tty =>
                           /\ effects' = <<"Tty.ResizeConsole">>
                           /\ ret'.err = IF ok THEN "nil" ELSE "OSFailure"]_vars

\* A ResizeConsole has failed with the not-a-terminal error, without a call,
\* on a host process that was started without a console.
C20_Witness ==
    /\ ret.op = "ResizeConsole" /\ ret.err = "NotATerminal"
    /\ effects = <<>>
    /\ ret.entry # 0
    /\ processCache[ret.arg] = ret.entry
    /\ psups[ret.entry].kind = "ext"
    /\ ~procs[ret.entry].Tty

\* ------------------------------------------------------------------ C21
\* The fields of a container entry other than its latch.
EntryFields(en) ==
    <<en.MappedVirtualDisks, en.MappedDirectories, en.NetworkAdapters,
      en.hasRunInitProcess, en.container>>

\* The goroutine that takes the step holds containerCacheMutex.
StepperHoldsContainerCache ==
    \/ \E t \in Threads : containerCacheMutex = t /\ thr'[t] # thr[t]
    \/ \E e \in 1..Len(sups) : containerCacheMutex = -e /\ sups'[e] # sups[e]

\* C21 as stated: every step that constructs a container entry or changes its
\* disk map, directory map, adapters, init flag, runtime handle or exit code
\* is taken by the goroutine that holds containerCacheMutex.
C21_EveryWriteUnderMutex ==
    [][\A e \in 1..Len(entries') :
          (\/ e > Len(entries)
           \/ EntryFields(entries'[e]) # EntryFields(entries[e])
           \/ entries'[e].exitCode # entries[e].exitCode)
             => StepperHoldsContainerCache]_vars

\* C21: every step that constructs a container entry or changes its disk
\* map, directory map, adapters, init flag or runtime handle is taken by the
\* goroutine that holds containerCacheMutex; the exit code is written by the
\* init supervisor of the entry alone, once, after it released the mutex and
\* before it releases the latch.
C21_WritesUnderMutexButExitCode ==
    [][\A e \in 1..Len(entries') :
          /\ (\/ e > Len(entries)
              \/ EntryFields(entries'[e]) # EntryFields(entries[e]))
                => StepperHoldsContainerCache
          /\ (e <= Len(entries) /\ entries'[e].exitCode # entries[e].exitCode) =>
                /\ sups[e].pc = "setExitCode" /\ sups'[e].pc = "done"
                /\ containerCacheMutex # -e
                /\ entries[e].exitCode = InitialExitCode
                /\ entries'[e].exitCode = sups[e].code
                /\ entries'[e].exitWg = 1]_vars

\* The init supervisor has just written the exit code of its entry while a
\* request thread holds containerCacheMutex.
C21_Witness ==
    \E e \in 1..Len(entries) :
        /\ sups[e].pc = "done"
        /\ entries[e].exitCode = sups[e].code
        /\ entries[e].exitCode # InitialExitCode
        /\ containerCacheMutex \in Threads

\* ------------------------------------------------------------------ C22
\* Thread t is inside entry.exitWg.Wait() of WaitContainer or WaitProcess.
InExitWait(t) == thr[t].pc = "wait"

\* C22: a thread inside exitWg.Wait() holds neither containerCacheMutex nor
\* processCacheMutex, so whoever holds a mutex is a goroutine that can take
\* its next step.
C22_WaitersHoldNoMutex ==
    \A t \in Threads :
        InExitWait(t) => (containerCacheMutex # t /\ processCacheMutex # t)

\* One thread is blocked in WaitContainer on an unreleased latch while the
\* other thread holds containerCacheMutex and the supervisor of the entry
\* has moved on.
C22_Witness ==
    \E t, u \in Threads :
        /\ t # u
        /\ InExitWait(t) /\ thr[t].op = "WaitContainer"
        /\ entries[thr[t].entry].exitWg = 1
        /\ containerCacheMutex = u
        /\ sups[thr[t].entry].pc = "setProcessExitCode"

\* ------------------------------------------------------------------ C23
\* The step starts the init supervisor of entry e (line 405).
SpawnsInitSupervisor(e) == sups[e].pc = "none" /\ sups'[e].pc # "none"

\* The step starts the supervisor of an init process.
SpawnsInitProcess ==
    /\ Len(psups') > Len(psups)
    /\ psups'[Len(psups')].kind = "init"

\* C23: hasRunInitProcess of an entry is set only by the thread that holds
\* containerCacheMutex, on an entry whose flag was false, and is never
\* cleared; an init supervisor is started only in such a step, and a started
\* supervisor is never started again, so every ExecProcess that finds the
\* flag set leaves the flag, the handle and the supervisor alone.
C23_InitPathTakenOnce ==
    [][/\ \A e \in 1..Len(entries) :
            /\ entries[e].hasRunInitProcess => entries'[e].hasRunInitProcess
            /\ entries'[e].hasRunInitProcess # entries[e].hasRunInitProcess =>
                  \E t \in Threads : /\ containerCacheMutex = t
                                     /\ thr[t].pc = "locked"
                                     /\ thr'[t] # thr[t]
            /\ SpawnsInitSupervisor(e) =>
                  /\ ~entries[e].hasRunInitProcess
                  /\ entries'[e].hasRunInitProcess
                  /\ SpawnsInitProcess
                  /\ sups'[e].proc = Len(psups')
            /\ sups[e].pc # "none" =>
                  (sups'[e].pc # "none" /\ sups'[e].proc = sups[e].proc)
       /\ SpawnsInitProcess =>
            \E e \in 1..Len(entries) :
                /\ SpawnsInitSupervisor(e)
                /\ \A e2 \in 1..Len(entries) : e2 # e => sups'[e2] = sups[e2]
       /\ \A e \in (Len(entries) + 1)..Len(entries') :
            ~entries'[e].hasRunInitProcess /\ sups'[e].pc = "none"]_vars

\* Two ExecProcess calls were made on one container: the first took the init
\* path and started the supervisor, the second took the other path and is
\* inserting its child process.
C23_Witness ==
    /\ Len(psups) = 2
    /\ psups[1].kind = "init" /\ psups[2].kind = "child"
    /\ Len(entries) = 1
    /\ sups[1].proc = 1
    /\ \E t \in Threads : thr[t].pc \in {"insert", "inserting"} /\ thr[t].proc = 2

\* ------------------------------------------------------------------ C24
\* C24 as stated: every ExecProcess step that finds hasRunInitProcess set on
\* its container finds the runtime handle of the entry present, and does not
\* end in the call of ExecProcess on a nil handle.
C24_ChildPathHasHandle ==
    [][(\E u \in Threads : thr[u].pc = "locked" /\ thr'[u].pc # "locked") =>
        \A t \in Threads, id \in Ids, fail \in ExecFailures, pid \in Pids :
          (/\ getContainer(id) # 0
           /\ entries[getContainer(id)].hasRunInitProcess
           /\ ExecProcess(t, id, fail, TRUE, pid)) =>
              /\ entries[getContainer(id)].container # 0
              /\ ~panicked']_vars

\* What holds of C24: the handle of an entry whose flag is set is absent
\* only when the first ExecProcess failed before it stored the handle, which
\* is also the only case in which a later ExecProcess panics.
C24_AbsentOnlyAfterFailedInit ==
    /\ \A e \in 1..Len(entries) :
          (entries[e].hasRunInitProcess /\ entries[e].container = 0) =>
             (InitFailed(e) /\ entries[e].exitWg = 0)
    /\ panicked =>
          \E e \in 1..Len(entries) :
              InitFailed(e) /\ entries[e].container = 0 /\ containerCache[entries[e].ID] = e

\* A later ExecProcess on a container whose first ExecProcess failed before
\* the handle was stored has called ExecProcess on the nil handle.
C24_Witness ==
    /\ panicked
    /\ \E e \in 1..Len(entries) :
          entries[e].hasRunInitProcess /\ entries[e].container = 0

\* ------------------------------------------------------------------ C25
\* Entry e is the one registered under its id.
Registered(e) == containerCache[entries[e].ID] = e

\* C25 as stated: under a fair scheduler every container entry whose exit
\* latch has been released, by the init supervisor or by a failed first
\* ExecProcess, is eventually no longer registered under its id (as long as
\* the process lives).
C25_ReleasedEntriesRemoved ==
    \A e \in 1..MaxEntries :
        (e <= Len(entries) /\ entries[e].exitWg = 0)
            ~> (e <= Len(entries) /\ (~Registered(e) \/ panicked))

\* The init supervisor of entry e has released the container's exit latch.
LatchReleasedBySupervisor(e) == e <= Len(entries) /\ SupReleased(e)

\* What holds of C25: an entry whose latch the init supervisor released is
\* eventually removed unless the process dies first (the release is never
\* undone, and again and again every entry so released is unregistered or the
\* process has died), and an entry whose latch a failed first ExecProcess
\* released stays registered for ever.
C25_OnlySupervisedEntriesRemoved ==
    /\ [][\A e \in 1..MaxEntries :
             LatchReleasedBySupervisor(e) => LatchReleasedBySupervisor(e)']_vars
    /\ \A e \in 1..MaxEntries :
           []<>(LatchReleasedBySupervisor(e) => (~Registered(e) \/ panicked))
    /\ [](\A e \in 1..Len(entries) : InitFailed(e) => Registered(e))

\* A CreateContainer has been refused on the id of an entry whose latch a
\* failed first ExecProcess released.
C25_Witness ==
    /\ ret.op = "CreateContainer" /\ ret.err = "ContainerExists"
    /\ containerCache[ret.arg] # 0
    /\ InitFailed(containerCache[ret.arg])
    /\ entries[containerCache[ret.arg]].exitWg = 0

\* ------------------------------------------------------------------ C26
\* The init supervisor of entry e has run cleanupContainer and released the
\* mutex (line 420).
PostCleanup(e) ==
    sups[e].pc \in {"setProcessExitCode", "processDone", "setExitCode",
                    "done", "lock2", "delete", "finished"}

\* The step records a new mapped disk or a new mapped directory on entry e.
RecordsMount(e) ==
    \/ ~(DOMAIN entries'[e].MappedVirtualDisks \subseteq DOMAIN entries[e].MappedVirtualDisks)
    \/ ~(DOMAIN entries'[e].MappedDirectories \subseteq DOMAIN entries[e].MappedDirectories)

\* C26 as stated: once the init supervisor of an entry has run cleanup, no
\* step records a new mapped disk or directory on the entry.
C26_NoMountAfterCleanup ==
    [][\A e \in 1..Len(entries) : PostCleanup(e) => ~RecordsMount(e)]_vars

\* What holds of C26: no step records a new mapped disk or directory on an
\* entry while its supervisor is inside the locked cleanup section, nor once
\* the entry is no longer registered under its id.
C26_NoMountDuringCleanupNorAfterRemoval ==
    [][\A e \in 1..Len(entries) :
          (sups[e].pc = "cleanup" \/ ~Registered(e)) => ~RecordsMount(e)]_vars

\* A ModifySettings(Add) has mounted and recorded a disk on an entry whose
\* supervisor has run cleanup and has not yet removed the entry.
C26_Witness ==
    /\ ret.op = "ModifySettings" /\ ret.err = "nil"
    /\ lastAdd.entry # 0
    /\ ret.entry = lastAdd.entry
    /\ ~lastAdd.removed
    /\ lastAdd.disk.Lun \in DOMAIN entries[lastAdd.entry].MappedVirtualDisks
    /\ lastAdd.disk.Lun \notin DOMAIN lastAdd.before
    /\ PostCleanup(lastAdd.entry)
    /\ Registered(lastAdd.entry)

\* ------------------------------------------------------------------ C27
\* C27: from its creation until its init supervisor deletes its id, an entry
\* is the one registered under its id, so the id holds one live entry at a
\* time; the supervisor's delete removes its own entry and nothing else.
C27_SupervisorDeletesItsOwnEntry ==
    /\ [](\A e \in 1..Len(entries) : sups[e].pc # "finished" => Registered(e))
    /\ [][\A e \in 1..Len(entries) :
            (sups[e].pc = "delete" /\ sups'[e].pc = "finished") =>
                /\ Registered(e)
                /\ containerCache' = [containerCache EXCEPT ![entries[e].ID] = 0]
                /\ \A e2 \in 1..Len(entries) :
                       (e2 # e /\ entries[e2].ID = entries[e].ID) =>
                           sups[e2].pc = "finished"]_vars

\* The supervisor of a second entry created under the id of a removed one
\* stands before its delete.
C27_Witness ==
    /\ Len(entries) = 2
    /\ entries[1].ID = entries[2].ID
    /\ sups[1].pc = "finished"
    /\ sups[2].pc = "delete"
    /\ Registered(2)

\* ------------------------------------------------------------------ C28
\* What each goroutine holds at each of its positions: a request thread holds
\* containerCacheMutex from its Lock to its return (ExecProcess through the
\* insertion of its process), processCacheMutex from its Lock to its Unlock,
\* and nothing once it has returned or waits on a latch; an init supervisor
\* holds containerCacheMutex in its two locked sections and never
\* processCacheMutex.
HeldAsTheCodeSays ==
    /\ processCacheMutex \in {0} \cup Threads
    /\ \A t \in Threads :
          /\ (containerCacheMutex = t) <=>
                 \/ thr[t].pc = "locked"
                 \/ /\ thr[t].pc \in {"insert", "inserting", "inserted"}
                    /\ thr[t].op = "ExecProcess"
          /\ (processCacheMutex = t) <=> thr[t].pc \in {"plocked", "inserting"}
    /\ \A e \in 1..Len(sups) :
          (containerCacheMutex = -e) <=> sups[e].pc \in {"cleanup", "delete"}

\* Every goroutine that holds a mutex can take its next step, whichever
\* handler it runs (ExecProcess as long as MaxProcs and Pids leave room for
\* another process); ExecProcess waiting for processCacheMutex can take it
\* once it is free.
HolderCanProceed ==
    /\ \A t \in Threads :
          /\ thr[t].pc = "locked" =>
                /\ ENABLED (\E id \in Ids : WaitContainerLookup(t, id))
                /\ ENABLED (\E id \in Ids, s \in SettingsSet, f \in CreateFailures :
                                CreateContainer(t, id, s, f))
                /\ (Len(procs) < MaxProcs /\ Pids \ LivePids # {}) =>
                       ENABLED (\E id \in Ids, f \in ExecFailures, tty \in BOOLEAN,
                                   pid \in Pids : ExecProcess(t, id, f, tty, pid))
                /\ ENABLED (\E id \in Ids, sig \in Signals, ok \in BOOLEAN :
                                SignalContainer(t, id, sig, ok))
                /\ ENABLED (\E id \in Ids, ok \in BOOLEAN : ListProcesses(t, id, ok))
                /\ ENABLED (\E id \in Ids, r \in ModifyRequests : ModifyStep(t, id, r))
          /\ (thr[t].pc = "insert" /\ processCacheMutex = 0) => ENABLED InsertLock(t)
          /\ thr[t].pc = "inserting" => ENABLED Insert(t)
          /\ thr[t].pc = "inserted" => ENABLED ExecProcessReturn(t)
          /\ thr[t].pc = "plocked" =>
                /\ ENABLED (\E pid \in Pids : WaitProcessLookup(t, pid))
                /\ ENABLED (\E pid \in Pids, sig \in Signals :
                                SignalProcess(t, pid, sig))
                /\ ENABLED (\E pid \in Pids : ResizeConsole(t, pid))
    /\ \A e \in 1..Len(sups) :
          /\ sups[e].pc = "cleanup" => ENABLED (\E ok \in BOOLEAN : SupCleanup(e, ok))
          /\ sups[e].pc = "delete" => ENABLED SupDelete(e)

\* The step a goroutine takes while it holds a mutex gives the mutex back:
\* a handler of the container cache gives containerCacheMutex back unless it
\* is ExecProcess going on to insert its process, which gives it back when
\* it returns; a handler of the process cache and the insertion give
\* processCacheMutex back; the supervisor gives containerCacheMutex back
\* after cleanupContainer and after its delete. A step in which the process
\* dies is excepted.
HolderReleases ==
    /\ \A t \in Threads :
          thr'[t] # thr[t] =>
              /\ thr[t].pc = "locked" =>
                    \/ containerCacheMutex' = 0
                    \/ thr'[t].pc = "insert" /\ thr'[t].op = "ExecProcess"
                    \/ panicked'
              /\ thr[t].pc = "inserted" => containerCacheMutex' = 0
              /\ thr[t].pc \in {"plocked", "inserting"} => processCacheMutex' = 0
    /\ \A e \in 1..Len(sups) :
          (sups'[e] # sups[e] /\ sups[e].pc \in {"cleanup", "delete"}) =>
              containerCacheMutex' = 0

\* C28: the goroutines hold the two mutexes exactly where the code locks
\* them, so a returned or latch-blocked handler holds none; processCacheMutex
\* is only ever taken by a thread that holds containerCacheMutex or nothing,
\* and containerCacheMutex never by a goroutine that holds processCacheMutex;
\* and as long as the process lives, the holder of a mutex can always take
\* its next step, and the step of a holder gives the mutex back on every
\* path.
C28_NoDeadlock ==
    /\ [](HeldAsTheCodeSays /\ (~panicked => HolderCanProceed))
    /\ [][/\ \A t \in Threads :
              (containerCacheMutex # t /\ containerCacheMutex' = t) =>
                  (processCacheMutex # t /\ processCacheMutex' # t)
          /\ \A e \in 1..Len(sups) :
              (containerCacheMutex # -e /\ containerCacheMutex' = -e) =>
                  containerCacheMutex = 0
          /\ \A t \in Threads :
              (processCacheMutex # t /\ processCacheMutex' = t) =>
                  processCacheMutex = 0
          /\ HolderReleases]_vars

\* One thread holds containerCacheMutex inside ExecProcess and waits for
\* processCacheMutex, which the other thread holds.
C28_Witness ==
    \E t, u \in Threads :
        /\ t # u
        /\ containerCacheMutex = t /\ thr[t].pc = "insert"
        /\ processCacheMutex = u /\ thr[u].pc = "plocked"


====
